---- MODULE Spec2Model ----
(***************************************************************************)
(* Hyper-V SynIC staged-message delivery of hw/hyperv/hyperv.c: one sint   *)
(* route with a staged message (a route created with a completion          *)
(* callback), the threads that work on it, and the guest.                  *)
(*                                                                         *)
(*   posters   device threads that call hyperv_post_msg; the first of them  *)
(*             owns the reference of hyperv_sint_route_new and drops it    *)
(*   cpu       the vCPU thread: cpu_post_msg, and the guest it runs        *)
(*   el        the event loop: sint_ack_handler and sint_msg_bh            *)
(*                                                                         *)
(* Only staged_msg->state is accessed atomically; every other field,       *)
(* refcount included, is read and written by plain loads and stores, so a  *)
(* function is a sequence of steps that other threads interleave with.     *)
(***************************************************************************)
EXTENDS Integers, Sequences, FiniteSets, TLC

\* ---------------------------------------------------------------- bounds
MaxPosts == 2       \* hyperv_post_msg calls accepted in a run
MaxAcks  == 1       \* guest acknowledgements not yet handled by sint_msg_bh
MaxSignals == 3     \* hyperv_set_event_flag calls in a run
MaxNodes == 2       \* handler entries the heap holds at a time
MaxWrites == 1      \* register writes of the guest in a run

Posters == {"p1", "p2"}
Owner   == "p1"
Threads == Posters \cup {"el", "cpu"}

\* enum of HvSintStagedMessage.state
HV_STAGED_MSG_FREE   == "FREE"
HV_STAGED_MSG_BUSY   == "BUSY"
HV_STAGED_MSG_POSTED == "POSTED"
StagedStates == {HV_STAGED_MSG_FREE, HV_STAGED_MSG_BUSY, HV_STAGED_MSG_POSTED}

\* header.message_type and header.message_flags of struct hyperv_message
HV_MESSAGE_NONE         == "NONE"
HV_MESSAGE_FLAG_PENDING == "PENDING"

\* staged_msg->status: 0 and the two errno values cpu_post_msg records
StatusOk     == "0"
StatusENXIO  == "-ENXIO"
StatusEAGAIN == "-EAGAIN"
StatusEINVAL == "-EINVAL"
StatusEEXIST == "-EEXIST"
StatusENOENT == "-ENOENT"

\* who scheduled a sint_msg_bh: cpu_post_msg or sint_ack_handler
BhOrigins == {"cpu_post_msg", "sint_ack_handler"}

\* g_new0: an all-zero struct hyperv_message
ZeroMsg == [message_type |-> HV_MESSAGE_NONE, message_flags |-> {}, payload |-> "00"]

\* the event flags page, scaled down: HV_SINT_COUNT sints, each with
\* HV_EVENT_FLAGS_COUNT flags held in words of BITS_PER_LONG bits
BITS_PER_LONG == 2
HV_EVENT_FLAGS_COUNT == 4
HV_SINT_COUNT == 2
Sints == 0 .. HV_SINT_COUNT - 1
WordsPerSint == HV_EVENT_FLAGS_COUNT \div BITS_PER_LONG
PageWords == 0 .. HV_SINT_COUNT * WordsPerSint - 1
ZeroEventPage == [w \in PageWords |-> {}]

\* the error conditions of hyperv_set_event_flag
ErrorCases == {"range", "disabled", "unmapped"}

\* threads that call hyperv_set_event_flag at the same time
Signallers == {"s1", "s2"}

\* the two registries, their writers and the hypercall that looks one up
Registries == {"msg_handlers", "event_flag_handlers"}
Writers == {"w1"}
Readers == {"r1"}
ConnIds == {1, 2}
Handlers == {"h1", "h2"}
NodeIds == 1 .. MaxNodes
NoArg == [reg |-> "none", conn_id |-> 0, handler |-> "NULL"]
NoNode == [conn_id |-> 0, handler |-> "NULL", next |-> 0, st |-> "free"]
NoLookup == [reg |-> "none", conn_id |-> 0, cur |-> 0, result |-> "none",
             first |-> "none", touched |-> FALSE]
HV_STATUS_INVALID_CONNECTION_ID == "HV_STATUS_INVALID_CONNECTION_ID"

\* virtual trust levels: HV_NUM_VTLS levels, the vCPU object of level v has
\* cpu_index v; the registers of a vCPU, each holding one of RegValues
HV_NUM_VTLS == 2
Vtls == 0 .. HV_NUM_VTLS - 1
maximum_vtl == HV_NUM_VTLS - 1
RegValues == {0, 1}
RegFields == {"rax", "rip", "cr3", "dr7", "gsbase", "gs_base", "ldt",
              "msr_hv_synic_control", "exception_nr"}
ResetEnv == [f \in RegFields |-> 0]
\* the VTLs a call or an interrupt can enter: their assist page and their
\* notifier are the ones the switch code looks at
SwitchTargets == Vtls \ {0}

\* what the guest puts into the initial context of a new VTL: not the
\* reset value
InitContextValues == RegValues \ {0}
NoSwitch == [active |-> 0, next |-> 0]
\* the handler of GET/SET_VP_REGISTERS is not in its loop
NoRegsCall == [cs |-> 0, set |-> FALSE, target_vcpu |-> 0, names |-> <<>>,
               vals |-> <<>>, i |-> 0, status |-> "none", changed |-> FALSE]
Returned(handler, value) == [op |-> handler, status |-> value]
HV_STATUS_SUCCESS == "HV_STATUS_SUCCESS"
HV_STATUS_INVALID_HYPERCALL_CODE == "HV_STATUS_INVALID_HYPERCALL_CODE"
HV_STATUS_INVALID_HYPERCALL_INPUT == "HV_STATUS_INVALID_HYPERCALL_INPUT"
HV_STATUS_INVALID_PARTITION_ID == "HV_STATUS_INVALID_PARTITION_ID"
HV_STATUS_INVALID_PARAMETER == "HV_STATUS_INVALID_PARAMETER"
HV_STATUS_INVALID_VP_INDEX == "HV_STATUS_INVALID_VP_INDEX"
HV_STATUS_ACCESS_DENIED == "HV_STATUS_ACCESS_DENIED"
EXCP_HALTED == "EXCP_HALTED"
HV_VTL_ENTRY_RESERVED == "HV_VTL_ENTRY_RESERVED"
HV_VTL_ENTRY_VTL_CALL == "HV_VTL_ENTRY_VTL_CALL"
HV_VTL_ENTRY_INTERRUPT == "HV_VTL_ENTRY_INTERRUPT"

\* the messages a caller hands to hyperv_post_msg
SrcMsgs ==
    { [message_type |-> "VMBUS", message_flags |-> {}, payload |-> "AA"],
      [message_type |-> "VMBUS", message_flags |-> {}, payload |-> "BB"],
      [message_type |-> HV_MESSAGE_NONE, message_flags |-> {}, payload |-> "AA"] }

VARIABLES
    state,          \* staged_msg->state
    msg,            \* staged_msg->msg
    status,         \* staged_msg->status
    refcount,       \* sint_route->refcount
    gsi,            \* sint_route->gsi (0: no interrupt line)
    freed,          \* the route and its staged message were g_free'd
    uaf,            \* a thread used the route after it was freed
    msg_page_addr,  \* synic->msg_page_addr (0: not mapped)
    slot,           \* synic->msg_page->slot[sint_route->sint]
    cpu_queue,      \* cpu_post_msg work items queued by async_run_on_cpu
    bh_queue,       \* sint_msg_bh one-shot bottom halves scheduled, by origin
    ack_pending,    \* sint_ack_notifier is signalled
    pc,             \* where each thread is
    tmp,            \* the refcount value a thread loaded
    ret,            \* the value the last hyperv_post_msg call returned
    wait_for_sint_ack, \* local of cpu_post_msg
    assert_failed,  \* the assertion at the entry of cpu_post_msg failed
    released,       \* the owner dropped (or is dropping) its reference
    accepted,       \* hyperv_post_msg calls that returned 0 or will
    posted_src,     \* src_msg of the last accepted call
    posted_count,   \* delivery steps that recorded a status
    posted_status,  \* the status the last delivery step recorded
    cb_count,       \* invocations of the callback staged_msg->cb
    cb_last,        \* the last one: status passed, calling function, origin
    acked_since_posted, \* the guest acknowledged after the state was last set POSTED
    irq_count,      \* event_notifier_set(&sint_set_notifier) calls
    dirty_count,    \* memory_region_set_dirty(&synic->msg_page_mr) calls
    refs_taken,     \* completed hyperv_sint_route_ref calls
    refs_released,  \* completed hyperv_sint_route_unref calls
    \* -- event flags (hyperv_set_event_flag)
    sctl_enabled,   \* synic->sctl_enabled
    event_page_addr,\* synic->event_page_addr (0: not mapped)
    event_page,     \* synic->event_page: the flag words of all sints, in order
    event_oob,      \* a flag word outside the event page was written
    event_ret,      \* the value the last hyperv_set_event_flag call returned
    event_dirty_count, \* memory_region_set_dirty(&synic->event_page_mr) calls
    event_calls,    \* hyperv_set_event_flag calls made
    event_arg,      \* the route's sint and the eventno of the last call
    sig_pc,         \* where each thread inside hyperv_set_event_flag is
    sig_arg,        \* the sint and eventno of its call
    event_err,      \* per error condition, what the last call under it returned
    \* -- connection registries (msg_handlers, event_flag_handlers)
    reg_head,       \* per registry, the first entry of its QLIST (0: NULL)
    reg_nodes,      \* the heap entries: conn_id, handler, link and allocation
    reg_grace,      \* per entry handed to g_free_rcu, the readers it waits for
    handlers_mutex, \* the thread that holds handlers_mutex, or "none"
    reg_pc,         \* where each registering or looking-up thread is
    reg_arg,        \* registry, conn_id and handler of a writer's running call
    reg_ret,        \* the value the last register/unregister call returned
    lk,             \* a lookup: registry, conn_id, entry at hand, result, the
                    \* answer when it began, a writer touched its conn_id
    lk_answers,     \* the answers the registry held for it while it ran
    reg_uaf,        \* a lookup read an entry that was freed
    \* -- virtual trust levels (one logical processor; cpu_index = VTL)
    partition_enabled_vtl_set, \* hv_vsm_partition_status.enabled_vtl_set
    cpu_exists,     \* the vCPU objects there are (qemu_get_cpu finds them)
    cpu_stopped,    \* cs->stopped of each
    cpu_stop,       \* cs->stop of each: a stop was requested
    env,            \* X86_CPU(cs)->env of each: the architectural registers
    vp_enabled_vtl_set, \* vsm_vp_status.enabled_vtl_set of each VpVsmState
    notifier_pending, \* vpvsm->notifier of each is signalled
    vp_vsm,         \* the vCPUs that have a VpVsmState ("vp-vsm" child)
    vp_assist,      \* vpvsm->vp_assist of each: "null", "mapped", or
                    \* "unmapped" (the pointer outlived its mapping)
    vtl_entry_reason, \* vtl_control.vtl_entry_reason in the assist page of each
    iothread_lock,  \* who holds the iothread lock: "none", "vcpu", "el"
    vtl_pc,         \* where the vCPU thread of each context is
    vtl_sw,         \* active_cs and next_cs of the switch it is in
    el_pc,          \* where the event loop is in vp_vsm_notifier
    el_sw,          \* active_cs and next_cs of vp_vsm_notifier
    vtl_ret,        \* the hypercall handler that returned last, and its value
    vtl_crashed,    \* the process died (NULL dereference, abort)
    vtl_writes,     \* register writes the guest has made
    hv_vsm_partition_config, \* as_u64 of the partition config of each VTL
    vsm_vtl_config, \* vsm_vtl_config[] of each VpVsmState, as_u64
    regs_call,      \* the locals of the GET/SET_VP_REGISTERS handler in its loop
    regs_out,       \* the values the last GET_VP_REGISTERS gave the guest
    regs_calls      \* GET/SET_VP_REGISTERS calls that reached the loop

post_vars == <<state, msg, status, refcount, gsi, freed, uaf, msg_page_addr, slot,
               cpu_queue, bh_queue, ack_pending, pc, tmp, ret, wait_for_sint_ack,
               assert_failed, released, accepted, posted_src, posted_count,
               posted_status, cb_count, cb_last, acked_since_posted, irq_count, dirty_count,
               refs_taken, refs_released>>

sig_vars == <<sig_pc, sig_arg>>

event_vars == <<sctl_enabled, event_page_addr, event_page, event_oob,
                event_ret, event_dirty_count, event_calls, event_arg,
                event_err, sig_vars>>

registry_vars == <<reg_head, reg_nodes, reg_grace, handlers_mutex, reg_pc,
                   reg_arg, reg_ret, lk, lk_answers, reg_uaf>>

assist_vars == <<vp_vsm, vp_assist, vtl_entry_reason>>

access_vars == <<hv_vsm_partition_config, vsm_vtl_config, regs_call, regs_out,
                 regs_calls>>

vtl_vars == <<assist_vars, partition_enabled_vtl_set, cpu_exists, cpu_stopped, cpu_stop, env,
              vp_enabled_vtl_set, notifier_pending,
              iothread_lock, vtl_pc, vtl_sw, el_pc, el_sw, vtl_ret,
              vtl_crashed, vtl_writes, access_vars>>

\* what the staged-message code does not touch
other_vars == <<event_vars, registry_vars, vtl_vars>>

vars == <<post_vars, other_vars>>

route_vars == <<state, msg, status, refcount>>
synic_vars == <<msg_page_addr, slot, irq_count, dirty_count>>
sched_vars == <<cpu_queue, bh_queue, ack_pending>>
ghost_vars == <<accepted, posted_src, posted_count, posted_status, cb_count,
                cb_last, acked_since_posted, refs_taken, refs_released>>

\* ------------------------------------------------------------------ Init
\* hyperv_sint_route_new(vp_index, sint, cb, cb_data) has returned the route:
\* refcount 1, staged message zeroed (state FREE, status 0), gsi set only
\* when the SynIC was enabled at that time; synic_reset left the pages zeroed
\* and unmapped.
Init ==
    /\ state = HV_STAGED_MSG_FREE
    /\ msg = ZeroMsg
    /\ status = StatusOk
    /\ refcount = 1
    /\ gsi \in {0, 1}
    /\ freed = FALSE
    /\ uaf = FALSE
    /\ msg_page_addr = 0
    /\ slot = ZeroMsg
    /\ cpu_queue = 0
    /\ bh_queue = [o \in BhOrigins |-> 0]
    /\ ack_pending = FALSE
    /\ pc = [t \in Threads |-> "idle"]
    /\ tmp = [t \in Threads |-> 0]
    /\ ret = "none"
    /\ wait_for_sint_ack = FALSE
    /\ assert_failed = FALSE
    /\ released = FALSE
    /\ accepted = 0
    /\ posted_src = ZeroMsg
    /\ posted_count = 0
    /\ posted_status = "none"
    /\ cb_count = 0
    /\ cb_last = [status |-> "none", by |-> "none", origin |-> "none"]
    /\ acked_since_posted = FALSE
    /\ irq_count = 0
    /\ dirty_count = 0
    /\ refs_taken = 0
    /\ refs_released = 0
    /\ sctl_enabled = FALSE
    /\ event_page_addr = 0
    /\ event_page = ZeroEventPage
    /\ event_oob = FALSE
    /\ event_ret = "none"
    /\ event_dirty_count = 0
    /\ event_calls = 0
    /\ event_arg = [sint |-> 0, eventno |-> 0]
    /\ event_err = [c \in ErrorCases |-> "none"]
    /\ sig_pc = [t \in Signallers |-> "idle"]
    /\ sig_arg = [t \in Signallers |-> [sint |-> 0, eventno |-> 0]]
    /\ reg_head = [g \in Registries |-> 0]
    /\ reg_nodes = [n \in NodeIds |-> NoNode]
    /\ reg_grace = [n \in NodeIds |-> {}]
    /\ handlers_mutex = "none"
    /\ reg_pc = [t \in Writers \cup Readers |-> "idle"]
    /\ reg_arg = [w \in Writers |-> NoArg]
    /\ reg_ret = "none"
    /\ lk = NoLookup
    /\ lk_answers = {}
    /\ reg_uaf = FALSE
    /\ partition_enabled_vtl_set = {0}
    /\ cpu_exists = {0}
    /\ cpu_stopped = [v \in Vtls |-> v # 0]
    /\ cpu_stop = [v \in Vtls |-> FALSE]
    /\ env = [v \in Vtls |-> ResetEnv]
    /\ vp_enabled_vtl_set = [v \in Vtls |-> {0}]
    /\ notifier_pending = [v \in Vtls |-> FALSE]
    /\ vp_vsm = {}
    /\ vp_assist = [v \in Vtls |-> "null"]
    /\ vtl_entry_reason = [v \in Vtls |-> HV_VTL_ENTRY_RESERVED]
    /\ iothread_lock = "none"
    /\ vtl_pc = [t \in Vtls |-> "idle"]
    /\ vtl_sw = [t \in Vtls |-> NoSwitch]
    /\ el_pc = "idle"
    /\ el_sw = NoSwitch
    /\ vtl_ret = Returned("none", "none")
    /\ vtl_crashed = FALSE
    /\ vtl_writes = 0
    /\ hv_vsm_partition_config = [v \in Vtls |-> 0]
    /\ vsm_vtl_config = [v \in Vtls |-> [n \in Vtls |-> 0]]
    /\ regs_call = NoRegsCall
    /\ regs_out = <<>>
    /\ regs_calls = 0

\* The route's memory is valid and no undefined behaviour has happened.
Halted == uaf \/ assert_failed
Alive == ~freed /\ ~Halted

\* ------------------------------------------------------- hyperv_post_msg
\* (mutant) an unconditional exchange where the compare-and-swap belongs
qatomic_xchg(cur, old, new) == new

\* qatomic_cmpxchg(ptr, old, new): the value the word holds afterwards
qatomic_cmpxchg(cur, old, new) == IF cur = old THEN new ELSE cur

\* grab the staging area (FREE -> BUSY) or return -EAGAIN; the memcpy into
\* the grabbed area, which no other thread looks at before the delivery is
\* queued, is part of the step
hyperv_post_msg_grab(p, m) ==
    /\ Alive /\ ~released
    /\ pc[p] = "idle"
    /\ accepted < MaxPosts
    /\ state' = qatomic_cmpxchg(state, HV_STAGED_MSG_FREE, HV_STAGED_MSG_BUSY)
    /\ IF state = HV_STAGED_MSG_FREE
       THEN /\ msg' = m
            /\ pc' = [pc EXCEPT ![p] = "ref"]
            /\ accepted' = accepted + 1
            /\ posted_src' = m
            /\ UNCHANGED ret
       ELSE /\ ret' = StatusEAGAIN
            /\ UNCHANGED <<msg, pc, accepted, posted_src>>
    /\ UNCHANGED <<status, refcount, gsi, freed, uaf, synic_vars, sched_vars,
                   tmp, wait_for_sint_ack, assert_failed, released,
                   posted_count, posted_status, cb_count, cb_last, acked_since_posted, refs_taken,
                   refs_released>>
    /\ UNCHANGED other_vars

\* hyperv_sint_route_ref: refcount++, a load and a store
hyperv_sint_route_ref_load(p) ==
    /\ Alive
    /\ pc[p] = "ref"
    /\ tmp' = [tmp EXCEPT ![p] = refcount]
    /\ pc' = [pc EXCEPT ![p] = "ref_store"]
    /\ UNCHANGED <<route_vars, gsi, freed, uaf, synic_vars, sched_vars, ret, wait_for_sint_ack, assert_failed, released, ghost_vars>>
    /\ UNCHANGED other_vars

hyperv_sint_route_ref_store(p) ==
    /\ Alive
    /\ pc[p] = "ref_store"
    /\ refcount' = tmp[p] + 1
    /\ tmp' = [tmp EXCEPT ![p] = 0]
    /\ refs_taken' = refs_taken + 1
    /\ pc' = [pc EXCEPT ![p] = "sched"]
    /\ UNCHANGED <<state, msg, status, gsi, freed, uaf, synic_vars, sched_vars,
                   ret, wait_for_sint_ack, assert_failed, released,
                   accepted, posted_src, posted_count, posted_status, cb_count, cb_last, acked_since_posted,
                   refs_released>>
    /\ UNCHANGED other_vars

\* async_run_on_cpu(cs, cpu_post_msg, sint_route); return 0
hyperv_post_msg_sched(p) ==
    /\ Alive
    /\ pc[p] = "sched"
    /\ cpu_queue' = cpu_queue + 1
    /\ ret' = StatusOk
    /\ pc' = [pc EXCEPT ![p] = "idle"]
    /\ UNCHANGED <<route_vars, gsi, freed, uaf, synic_vars, bh_queue,
                   ack_pending, tmp, wait_for_sint_ack, assert_failed,
                   released, ghost_vars>>
    /\ UNCHANGED other_vars

\* ----------------------------------------------- hyperv_sint_route_unref
\* the owner of the reference of hyperv_sint_route_new lets go of the route;
\* it does so when no call of its own is using the route
owner_unref ==
    /\ Alive /\ ~released
    /\ \A p \in Posters : pc[p] = "idle"
    /\ released' = TRUE
    /\ pc' = [pc EXCEPT ![Owner] = "unref"]
    /\ UNCHANGED <<route_vars, gsi, freed, uaf, synic_vars, sched_vars, tmp,
                   ret, wait_for_sint_ack, assert_failed, ghost_vars>>
    /\ UNCHANGED other_vars

\* --sint_route->refcount: the load
hyperv_sint_route_unref_load(t) ==
    /\ Alive
    /\ pc[t] = "unref"
    /\ tmp' = [tmp EXCEPT ![t] = refcount]
    /\ pc' = [pc EXCEPT ![t] = "unref_store"]
    /\ UNCHANGED <<route_vars, gsi, freed, uaf, synic_vars, sched_vars, ret, wait_for_sint_ack, assert_failed, released, ghost_vars>>
    /\ UNCHANGED other_vars

\* --sint_route->refcount: the store; at zero the route is unlinked (under
\* sint_routes_mutex), its notifiers are torn down and it is freed
hyperv_sint_route_unref_store(t) ==
    /\ Alive
    /\ pc[t] = "unref_store"
    /\ refcount' = tmp[t] - 1
    /\ refs_released' = refs_released + 1
    /\ freed' = (tmp[t] - 1 = 0)
    /\ ack_pending' = IF tmp[t] - 1 = 0 THEN FALSE ELSE ack_pending
    /\ tmp' = [tmp EXCEPT ![t] = 0]
    /\ pc' = [pc EXCEPT ![t] = "idle"]
    /\ UNCHANGED <<state, msg, status, gsi, uaf, synic_vars, cpu_queue,
                   bh_queue, ret, wait_for_sint_ack, assert_failed,
                   released, accepted, posted_src, posted_count, posted_status,
                   cb_count, cb_last, acked_since_posted, refs_taken>>
    /\ UNCHANGED other_vars

\* ----------------------------------------------------------- cpu_post_msg
\* hyperv_sint_route_set_sint: 1 when the interrupt line is signalled
hyperv_sint_route_set_sint(g) == IF g = 0 THEN 0 ELSE 1

\* (mutant) the occupied slot is overwritten instead of flagged pending
cpu_post_msg_body_overwrite(addr, dst, staged, g) ==
    IF addr = 0
    THEN [slot |-> dst, status |-> StatusENXIO, wait |-> FALSE,
          dirty |-> 0, irq |-> 0]
    ELSE [slot |-> staged, status |-> StatusOk, wait |-> FALSE,
          dirty |-> 1, irq |-> hyperv_sint_route_set_sint(g)]

\* (mutant) the check for a mapped message page is missing
cpu_post_msg_body_nocheck(addr, dst, staged, g) ==
    IF dst.message_type # HV_MESSAGE_NONE
    THEN [slot |-> [dst EXCEPT !.message_flags = @ \cup {HV_MESSAGE_FLAG_PENDING}],
          status |-> StatusEAGAIN, wait |-> TRUE, dirty |-> 1, irq |-> 0]
    ELSE [slot |-> staged, status |-> StatusOk, wait |-> FALSE,
          dirty |-> 1, irq |-> hyperv_sint_route_set_sint(g)]

\* (mutant) only the payload reaches the slot, and the page is not marked
cpu_post_msg_body_payload(addr, dst, staged, g) ==
    IF addr = 0
    THEN [slot |-> dst, status |-> StatusENXIO, wait |-> FALSE,
          dirty |-> 0, irq |-> 0]
    ELSE IF dst.message_type # HV_MESSAGE_NONE
    THEN [slot |-> [dst EXCEPT !.message_flags = @ \cup {HV_MESSAGE_FLAG_PENDING}],
          status |-> StatusEAGAIN, wait |-> TRUE, dirty |-> 1, irq |-> 0]
    ELSE [slot |-> [dst EXCEPT !.payload = staged.payload], status |-> StatusOk,
          wait |-> FALSE, dirty |-> 0, irq |-> hyperv_sint_route_set_sint(g)]

\* (mutant) every delivery waits for the guest's acknowledgement
cpu_post_msg_body_wait(addr, dst, staged, g) ==
    IF addr = 0
    THEN [slot |-> dst, status |-> StatusENXIO, wait |-> TRUE,
          dirty |-> 0, irq |-> 0]
    ELSE IF dst.message_type # HV_MESSAGE_NONE
    THEN [slot |-> [dst EXCEPT !.message_flags = @ \cup {HV_MESSAGE_FLAG_PENDING}],
          status |-> StatusEAGAIN, wait |-> TRUE, dirty |-> 1, irq |-> 0]
    ELSE [slot |-> staged, status |-> StatusOk, wait |-> TRUE,
          dirty |-> 1, irq |-> hyperv_sint_route_set_sint(g)]

\* the body of cpu_post_msg between the assertion and the label posted:
\* what becomes of the slot, the status, wait_for_sint_ack, and how many
\* dirty marks and interrupts it makes
cpu_post_msg_body(addr, dst, staged, g) ==
    IF addr = 0
    THEN [slot |-> dst, status |-> StatusENXIO, wait |-> FALSE,
          dirty |-> 0, irq |-> 0]
    ELSE IF dst.message_type # HV_MESSAGE_NONE
    THEN [slot |-> [dst EXCEPT !.message_flags = @ \cup {HV_MESSAGE_FLAG_PENDING}],
          status |-> StatusEAGAIN, wait |-> TRUE, dirty |-> 1, irq |-> 0]
    ELSE [slot |-> staged, status |-> StatusOk, wait |-> FALSE,
          dirty |-> 1, irq |-> hyperv_sint_route_set_sint(g)]

cpu_post_msg_deliver ==
    /\ Alive
    /\ pc["cpu"] = "idle"
    /\ cpu_queue > 0
    /\ cpu_queue' = cpu_queue - 1
    /\ IF state # HV_STAGED_MSG_BUSY
       THEN /\ assert_failed' = TRUE
            /\ UNCHANGED <<slot, status, wait_for_sint_ack, dirty_count,
                           irq_count, posted_count, posted_status, pc>>
       ELSE LET r == cpu_post_msg_body(msg_page_addr, slot, msg, gsi) IN
            /\ slot' = r.slot
            /\ status' = r.status
            /\ wait_for_sint_ack' = r.wait
            /\ dirty_count' = dirty_count + r.dirty
            /\ irq_count' = irq_count + r.irq
            /\ posted_count' = posted_count + 1
            /\ posted_status' = r.status
            /\ pc' = [pc EXCEPT !["cpu"] = "posted"]
            /\ UNCHANGED assert_failed
    /\ UNCHANGED <<state, msg, refcount, gsi, freed, uaf, msg_page_addr,
                   bh_queue, ack_pending, tmp, ret, released, accepted, posted_src, cb_count, cb_last, acked_since_posted, refs_taken, refs_released>>
    /\ UNCHANGED other_vars

\* posted: qatomic_set(&staged_msg->state, HV_STAGED_MSG_POSTED)
cpu_post_msg_posted ==
    /\ Alive
    /\ pc["cpu"] = "posted"
    /\ state' = HV_STAGED_MSG_POSTED
    /\ acked_since_posted' = FALSE
    /\ pc' = [pc EXCEPT !["cpu"] = "notify"]
    /\ UNCHANGED <<msg, status, refcount, gsi, freed, uaf, synic_vars,
                   sched_vars, tmp, ret, wait_for_sint_ack, assert_failed,
                   released, accepted, posted_src, posted_count,
                   posted_status, cb_count, cb_last, refs_taken,
                   refs_released>>
    /\ UNCHANGED other_vars

\* (mutant) the vCPU thread completes the message itself instead of
\* scheduling the bottom half
cpu_post_msg_notify_inline ==
    /\ Alive
    /\ pc["cpu"] = "notify"
    /\ cb_count' = IF wait_for_sint_ack THEN cb_count ELSE cb_count + 1
    /\ cb_last' = IF wait_for_sint_ack THEN cb_last
                  ELSE [status |-> status, by |-> "cpu_post_msg",
                        origin |-> "cpu_post_msg"]
    /\ bh_queue' = IF wait_for_sint_ack THEN bh_queue
                   ELSE [bh_queue EXCEPT !["cpu_post_msg"] = @ + 1]
    /\ wait_for_sint_ack' = FALSE
    /\ pc' = [pc EXCEPT !["cpu"] = "idle"]
    /\ UNCHANGED <<route_vars, gsi, freed, uaf, synic_vars, cpu_queue,
                   ack_pending, tmp, ret, assert_failed, released,
                   accepted, posted_src, posted_count, posted_status, refs_taken,
                   refs_released, acked_since_posted>>
    /\ UNCHANGED other_vars

\* if (!wait_for_sint_ack) aio_bh_schedule_oneshot(..., sint_msg_bh, ...)
cpu_post_msg_notify ==
    /\ Alive
    /\ pc["cpu"] = "notify"
    /\ bh_queue' = IF wait_for_sint_ack THEN bh_queue
                   ELSE [bh_queue EXCEPT !["cpu_post_msg"] = @ + 1]
    /\ wait_for_sint_ack' = FALSE
    /\ pc' = [pc EXCEPT !["cpu"] = "idle"]
    /\ UNCHANGED <<route_vars, gsi, freed, uaf, synic_vars, cpu_queue,
                   ack_pending, tmp, ret, assert_failed, released,
                   ghost_vars>>
    /\ UNCHANGED other_vars

\* ------------------------------------------- sint_ack_handler, sint_msg_bh
sint_ack_handler ==
    /\ Alive
    /\ pc["el"] = "idle"
    /\ ack_pending
    /\ ack_pending' = FALSE
    /\ bh_queue' = [bh_queue EXCEPT !["sint_ack_handler"] = @ + 1]
    /\ UNCHANGED <<route_vars, gsi, freed, uaf, synic_vars, cpu_queue, pc, tmp,
                   ret, wait_for_sint_ack, assert_failed, released,
                   ghost_vars>>
    /\ UNCHANGED other_vars

\* (mutant) the check lets a message through that is still BUSY
staged_msg_not_free(s) == s # HV_STAGED_MSG_FREE

\* the check at the entry of sint_msg_bh: is the posting done?
staged_msg_posted(s) == s = HV_STAGED_MSG_POSTED

\* sint_msg_bh up to and including the callback
sint_msg_bh(o) ==
    /\ Alive
    /\ pc["el"] = "idle"
    /\ bh_queue[o] > 0
    /\ bh_queue' = [bh_queue EXCEPT ![o] = @ - 1]
    /\ IF ~staged_msg_posted(state)
       THEN UNCHANGED <<cb_count, cb_last, pc>>
       ELSE /\ cb_count' = cb_count + 1
            /\ cb_last' = [status |-> status, by |-> "sint_msg_bh", origin |-> o]
            /\ pc' = [pc EXCEPT !["el"] = "cb_done"]
    /\ UNCHANGED <<route_vars, gsi, freed, uaf, synic_vars, cpu_queue,
                   ack_pending, tmp, ret, wait_for_sint_ack, assert_failed,
                   released, accepted, posted_src, posted_count, posted_status,
                   refs_taken, refs_released, acked_since_posted>>
    /\ UNCHANGED other_vars

\* (mutant) the state is set FREE before the status is reset
sint_msg_bh_status_free ==
    /\ Alive
    /\ pc["el"] = "cb_done"
    /\ state' = HV_STAGED_MSG_FREE
    /\ pc' = [pc EXCEPT !["el"] = "set_free"]
    /\ UNCHANGED <<msg, status, refcount, gsi, freed, uaf, synic_vars,
                   sched_vars, tmp, ret, wait_for_sint_ack, assert_failed,
                   released, ghost_vars>>
    /\ UNCHANGED other_vars

\* staged_msg->status = 0
sint_msg_bh_status ==
    /\ Alive
    /\ pc["el"] = "cb_done"
    /\ status' = StatusOk
    /\ pc' = [pc EXCEPT !["el"] = "set_free"]
    /\ UNCHANGED <<state, msg, refcount, gsi, freed, uaf, synic_vars,
                   sched_vars, tmp, ret, wait_for_sint_ack, assert_failed,
                   released, ghost_vars>>
    /\ UNCHANGED other_vars

\* qatomic_set(&staged_msg->state, HV_STAGED_MSG_FREE), then the unref
sint_msg_bh_free ==
    /\ Alive
    /\ pc["el"] = "set_free"
    /\ state' = HV_STAGED_MSG_FREE
    /\ pc' = [pc EXCEPT !["el"] = "unref"]
    /\ UNCHANGED <<msg, status, refcount, gsi, freed, uaf, synic_vars,
                   sched_vars, tmp, ret, wait_for_sint_ack, assert_failed,
                   released, ghost_vars>>
    /\ UNCHANGED other_vars

\* ------------------------------------------------------------- the guest
\* the guest consumes the message of its slot and clears the slot
guest_consume ==
    /\ ~Halted
    /\ pc["cpu"] = "idle"
    /\ slot.message_type # HV_MESSAGE_NONE
    /\ slot' = ZeroMsg
    /\ UNCHANGED <<route_vars, gsi, freed, uaf, msg_page_addr, irq_count,
                   dirty_count, sched_vars, pc, tmp, ret,
                   wait_for_sint_ack, assert_failed, released, ghost_vars>>
    /\ UNCHANGED other_vars

\* the guest acknowledges the sint (EOI/EOM): KVM signals sint_ack_notifier,
\* which is wired to the interrupt line only when the route has a gsi
guest_ack ==
    /\ Alive
    /\ pc["cpu"] = "idle"
    /\ gsi # 0
    /\ ~ack_pending
    /\ bh_queue["sint_ack_handler"] < MaxAcks
    /\ ack_pending' = TRUE
    /\ acked_since_posted' = TRUE
    /\ UNCHANGED <<route_vars, gsi, freed, uaf, synic_vars, cpu_queue,
                   bh_queue, pc, tmp, ret, wait_for_sint_ack,
                   assert_failed, released, accepted, posted_src,
                   posted_count, posted_status, cb_count, cb_last, refs_taken, refs_released>>
    /\ UNCHANGED other_vars

\* the guest writes the SIMP MSR: hyperv_synic_update maps or unmaps the page
hyperv_synic_update(addr) ==
    /\ ~Halted
    /\ pc["cpu"] = "idle"
    /\ msg_page_addr # addr
    /\ msg_page_addr' = addr
    /\ UNCHANGED <<route_vars, gsi, freed, uaf, slot, irq_count, dirty_count,
                   sched_vars, pc, tmp, ret, wait_for_sint_ack,
                   assert_failed, released, ghost_vars>>
    /\ UNCHANGED other_vars

\* ---------------------------------------------------- use after free
\* A thread whose next step is on the route runs it after the route was freed.
\* What follows is undefined; the run is not followed further.
PendingOn(t) ==
    CASE t \in Posters -> pc[t] # "idle" \/ ~released
      [] t = "cpu"     -> pc[t] # "idle" \/ cpu_queue > 0
      [] t = "el"      -> pc[t] # "idle" \/ \E o \in BhOrigins : bh_queue[o] > 0

use_after_free(t) ==
    /\ freed /\ ~Halted
    /\ PendingOn(t)
    /\ uaf' = TRUE
    /\ UNCHANGED <<route_vars, gsi, freed, synic_vars, sched_vars, pc, tmp, ret, wait_for_sint_ack, assert_failed, released, ghost_vars>>
    /\ UNCHANGED other_vars

\* ------------------------------------------------------------------ Next
Next ==
    \/ \E p \in Posters, m \in SrcMsgs : hyperv_post_msg_grab(p, m)
    \/ \E p \in Posters : hyperv_sint_route_ref_load(p)
    \/ \E p \in Posters : hyperv_sint_route_ref_store(p)
    \/ \E p \in Posters : hyperv_post_msg_sched(p)
    \/ owner_unref
    \/ \E t \in {Owner, "el"} : hyperv_sint_route_unref_load(t)
    \/ \E t \in {Owner, "el"} : hyperv_sint_route_unref_store(t)
    \/ cpu_post_msg_deliver
    \/ cpu_post_msg_posted
    \/ cpu_post_msg_notify
    \/ sint_ack_handler
    \/ \E o \in BhOrigins : sint_msg_bh(o)
    \/ sint_msg_bh_status
    \/ sint_msg_bh_free
    \/ guest_consume
    \/ guest_ack
    \/ \E a \in {0, 1} : hyperv_synic_update(a)
    \/ \E t \in Threads : use_after_free(t)

Spec == Init /\ [][Next]_vars

\* the scheduling of the code: a thread inside a function keeps running, the
\* vCPU thread runs its queued work, the event loop runs its handlers and
\* bottom halves; the guest and new calls are under no obligation
PosterSteps(p) ==
    \/ hyperv_sint_route_ref_load(p)
    \/ hyperv_sint_route_ref_store(p)
    \/ hyperv_post_msg_sched(p)
    \/ hyperv_sint_route_unref_load(p)
    \/ hyperv_sint_route_unref_store(p)

CpuSteps == cpu_post_msg_deliver \/ cpu_post_msg_posted \/ cpu_post_msg_notify

EventLoopSteps ==
    \/ sint_ack_handler
    \/ \E o \in BhOrigins : sint_msg_bh(o)
    \/ sint_msg_bh_status
    \/ sint_msg_bh_free
    \/ hyperv_sint_route_unref_load("el")
    \/ hyperv_sint_route_unref_store("el")

FairSpec ==
    /\ Init /\ [][Next]_vars
    /\ \A p \in Posters : WF_vars(PosterSteps(p))
    /\ WF_vars(CpuSteps)
    /\ WF_vars(EventLoopSteps)

\* ================================================================ claims
InFlight == state \in {HV_STAGED_MSG_BUSY, HV_STAGED_MSG_POSTED}
Completed == cb_count
LastPosted == posted_status

\* the step just taken is the grab of poster p, the delivery, ...
GrabStep == \E p \in Posters, m \in SrcMsgs : hyperv_post_msg_grab(p, m)
DeliverStep == pc["cpu"] = "idle" /\ pc'["cpu"] = "posted"
PostedStep == pc["cpu"] = "posted" /\ pc'["cpu"] = "notify"
NotifyStep == pc["cpu"] = "notify" /\ pc'["cpu"] = "idle"
CallbackStep == cb_count' = cb_count + 1

\* C1: the staged-message state is always FREE, BUSY or POSTED; it changes
\* only FREE->BUSY in hyperv_post_msg, BUSY->POSTED in cpu_post_msg on the
\* vCPU thread and POSTED->FREE in sint_msg_bh on the event loop; so at most
\* one accepted message is not yet completed.
C1_Transition ==
    state' # state =>
        \/ /\ state = HV_STAGED_MSG_FREE /\ state' = HV_STAGED_MSG_BUSY
           /\ \E p \in Posters : pc[p] = "idle" /\ pc'[p] = "ref"
        \/ /\ state = HV_STAGED_MSG_BUSY /\ state' = HV_STAGED_MSG_POSTED
           /\ PostedStep
        \/ /\ state = HV_STAGED_MSG_POSTED /\ state' = HV_STAGED_MSG_FREE
           /\ pc["el"] = "set_free" /\ pc'["el"] = "unref"

C1_StateCycle ==
    /\ [](state \in StagedStates)
    /\ [](accepted - Completed \in {0, 1})
    /\ [](state = HV_STAGED_MSG_FREE => accepted = Completed)
    /\ [][C1_Transition]_vars

\* a second message went through BUSY to POSTED after the first one completed
C1_Witness == state = HV_STAGED_MSG_POSTED /\ Completed = 1 /\ accepted = 2

\* C2: a hyperv_post_msg call made while the state is BUSY or POSTED returns
\* -EAGAIN and changes nothing: payload, status, state, refcount, and no
\* delivery is queued on the vCPU thread.
C2_Rejected ==
    (GrabStep /\ InFlight) =>
        /\ ret' = StatusEAGAIN
        /\ UNCHANGED <<state, msg, status, refcount, cpu_queue, bh_queue, pc,
                       accepted, slot>>

C2_RetryNoSideEffect == [][C2_Rejected]_vars

\* a call was rejected while another poster was inside its accepted call
C2_Witness ==
    /\ ret = StatusEAGAIN /\ InFlight
    /\ \E p \in Posters : pc[p] = "ref_store"

C5_DeliverEmptySlot ==
    (DeliverStep /\ msg_page_addr # 0 /\ slot.message_type = HV_MESSAGE_NONE) =>
        /\ slot' = posted_src
        /\ slot'.message_type # HV_MESSAGE_NONE
        /\ dirty_count' = dirty_count + 1
        /\ irq_count' = irq_count + 1

C5_DeliverEmptySlotAmended ==
    (DeliverStep /\ msg_page_addr # 0 /\ slot.message_type = HV_MESSAGE_NONE) =>
        /\ slot' = posted_src
        /\ (slot'.message_type # HV_MESSAGE_NONE) = (posted_src.message_type # HV_MESSAGE_NONE)
        /\ dirty_count' = dirty_count + 1
        /\ irq_count' = irq_count + (IF gsi # 0 THEN 1 ELSE 0)
        /\ status' = StatusOk

C6_Steps ==
    /\ (DeliverStep /\ msg_page_addr # 0 /\ slot.message_type # HV_MESSAGE_NONE) =>
          /\ slot'.message_type = slot.message_type
          /\ slot'.payload = slot.payload
          /\ slot'.message_flags = slot.message_flags \cup {HV_MESSAGE_FLAG_PENDING}
          /\ status' = StatusEAGAIN
          /\ irq_count' = irq_count
          /\ wait_for_sint_ack'
          /\ UNCHANGED <<state, bh_queue>>
    /\ (PostedStep /\ wait_for_sint_ack) =>
          /\ state' = HV_STAGED_MSG_POSTED
          /\ wait_for_sint_ack'
          /\ UNCHANGED <<slot, status, irq_count, bh_queue>>
    /\ (NotifyStep /\ wait_for_sint_ack) =>
          UNCHANGED <<state, slot, status, irq_count, bh_queue>>

C6_SlotOccupied == [][C6_Steps]_vars

\* cpu_post_msg has returned from a delivery that found another payload in
\* the slot; nothing is scheduled
C6_Witness ==
    /\ pc["cpu"] = "idle" /\ state = HV_STAGED_MSG_POSTED
    /\ status = StatusEAGAIN
    /\ HV_MESSAGE_FLAG_PENDING \in slot.message_flags
    /\ slot.payload # msg.payload
    /\ \A o \in BhOrigins : bh_queue[o] = 0

\* C7: a delivery on a SynIC without a mapped message page records -ENXIO,
\* writes no slot, raises no interrupt, moves the state to POSTED and
\* schedules the completion; the callback of that post gets -ENXIO.
C7_Steps ==
    /\ (DeliverStep /\ msg_page_addr = 0) =>
          /\ status' = StatusENXIO
          /\ ~wait_for_sint_ack'
          /\ UNCHANGED <<slot, irq_count, dirty_count, state>>
    /\ (PostedStep /\ LastPosted = StatusENXIO) =>
          /\ state' = HV_STAGED_MSG_POSTED
          /\ status' = StatusENXIO
          /\ UNCHANGED <<slot, irq_count, dirty_count>>
    /\ (NotifyStep /\ LastPosted = StatusENXIO) =>
          /\ bh_queue'["cpu_post_msg"] = bh_queue["cpu_post_msg"] + 1
          /\ UNCHANGED <<slot, irq_count, dirty_count>>
    /\ (CallbackStep /\ LastPosted = StatusENXIO) =>
          cb_last'.status = StatusENXIO

C7_NoMessagePage == [][C7_Steps]_vars

\* the callback ran with -ENXIO, and no slot was written
C7_Witness ==
    /\ Completed >= 1 /\ cb_last.status = StatusENXIO
    /\ slot = ZeroMsg /\ dirty_count = 0

\* C8: the callback is invoked by sint_msg_bh on the event loop only, never
\* inside hyperv_post_msg or cpu_post_msg; and hyperv_post_msg returns 0 with
\* the delivery still queued and the callback still to come.
C8_Steps ==
    /\ CallbackStep =>
          /\ pc["el"] = "idle" /\ pc'["el"] = "cb_done"
          /\ cb_last'.by = "sint_msg_bh"
          /\ \A t \in Threads \ {"el"} : pc'[t] = pc[t]
    /\ \A p \in Posters :
          (pc[p] = "sched" /\ pc'[p] = "idle") =>
              /\ ret' = StatusOk
              /\ state' = HV_STAGED_MSG_BUSY
              /\ cpu_queue' >= 1
              /\ Completed' = accepted - 1
    /\ Completed > 0 => cb_last.by = "sint_msg_bh"

C8_CallbackOnEventLoop == [][C8_Steps]_vars

\* hyperv_post_msg has returned 0 and nothing was delivered or completed yet
C8_Witness ==
    \E p \in Posters :
        /\ ret = StatusOk /\ pc[p] = "idle"
        /\ state = HV_STAGED_MSG_BUSY /\ cpu_queue = 1 /\ Completed = accepted - 1
        /\ Completed = 1

\* C9: each accepted post takes one reference and its completion releases
\* one: while a message is in flight the route has a reference and is not
\* destroyed, and once everything has completed and every thread is back
\* outside the code the count is what it was before the posts, the owner's 1.
Quiescent ==
    /\ \A t \in Threads : pc[t] = "idle"
    /\ cpu_queue = 0
    /\ state = HV_STAGED_MSG_FREE

C9_ReferenceHeld ==
    /\ InFlight => (~freed /\ refcount >= 1)
    /\ (Quiescent /\ ~released) => (~freed /\ refcount = 1)
    /\ (Quiescent /\ released) => (freed /\ refcount = 0)

\* C10: no update of the reference count is lost: the count is the
\* reference of hyperv_sint_route_new plus the references taken minus the
\* references released.
C10_NoLostUpdate == refcount = 1 + refs_taken - refs_released


\* ================================================== hyperv_set_event_flag
\* BIT_WORD(nr), BIT_MASK(nr): the word of bit nr and its mask in that word
BIT_WORD(nr) == nr \div BITS_PER_LONG
BIT_MASK(nr) == {nr % BITS_PER_LONG}

\* (mutant) the page is marked and the sint signalled on every call
hyperv_set_event_flag_always(enabled, addr, page, sint, eventno, g) ==
    IF eventno > HV_EVENT_FLAGS_COUNT
    THEN [page |-> page, oob |-> FALSE, ret |-> StatusEINVAL, dirty |-> 0, irq |-> 0]
    ELSE IF ~enabled \/ addr = 0
    THEN [page |-> page, oob |-> FALSE, ret |-> StatusENXIO, dirty |-> 0, irq |-> 0]
    ELSE LET set_idx == sint * WordsPerSint + BIT_WORD(eventno)
             set_mask == BIT_MASK(eventno)
         IN  IF set_idx \notin PageWords
             THEN [page |-> page, oob |-> TRUE, ret |-> "undefined",
                   dirty |-> 0, irq |-> 0]
             ELSE [page |-> [page EXCEPT ![set_idx] = @ \cup set_mask],
                   oob |-> FALSE, ret |-> StatusOk, dirty |-> 1,
                   irq |-> hyperv_sint_route_set_sint(g)]

\* hyperv_set_event_flag(sint_route, eventno) on the route of the given sint
\* and gsi: the page afterwards, whether a word outside the page was written
\* (flags[set_idx] is plain pointer arithmetic from the sint's first word),
\* the return value, and the dirty marks and interrupts made
hyperv_set_event_flag_body(enabled, addr, page, sint, eventno, g) ==
    IF eventno > HV_EVENT_FLAGS_COUNT
    THEN [page |-> page, oob |-> FALSE, ret |-> StatusEINVAL, dirty |-> 0, irq |-> 0]
    ELSE IF ~enabled \/ addr = 0
    THEN [page |-> page, oob |-> FALSE, ret |-> StatusENXIO, dirty |-> 0, irq |-> 0]
    ELSE LET set_idx == sint * WordsPerSint + BIT_WORD(eventno)
             set_mask == BIT_MASK(eventno)
         IN  IF set_idx \notin PageWords
             THEN [page |-> page, oob |-> TRUE, ret |-> "undefined",
                   dirty |-> 0, irq |-> 0]
             ELSE IF set_mask \subseteq page[set_idx]
             THEN [page |-> page, oob |-> FALSE, ret |-> StatusOk,
                   dirty |-> 0, irq |-> 0]
             ELSE [page |-> [page EXCEPT ![set_idx] = @ \cup set_mask],
                   oob |-> FALSE, ret |-> StatusOk, dirty |-> 1,
                   irq |-> hyperv_sint_route_set_sint(g)]

\* the one error condition a call is made under, if it is exactly one
ErrorCase(enabled, addr, eventno) ==
    IF eventno >= HV_EVENT_FLAGS_COUNT /\ enabled /\ addr # 0 THEN "range"
    ELSE IF eventno < HV_EVENT_FLAGS_COUNT /\ ~enabled /\ addr # 0 THEN "disabled"
    ELSE IF eventno < HV_EVENT_FLAGS_COUNT /\ enabled /\ addr = 0 THEN "unmapped"
    ELSE "other"

post_rest == <<route_vars, freed, uaf, msg_page_addr, slot, dirty_count,
               sched_vars, pc, tmp, ret, wait_for_sint_ack, assert_failed,
               released, ghost_vars>>

hyperv_set_event_flag(sint, eventno) ==
    /\ ~event_oob
    /\ event_calls < MaxSignals
    /\ LET r == hyperv_set_event_flag_body(sctl_enabled, event_page_addr,
                                           event_page, sint, eventno, gsi)
       IN  /\ event_page' = r.page
           /\ event_oob' = r.oob
           /\ event_ret' = r.ret
           /\ event_dirty_count' = event_dirty_count + r.dirty
           /\ irq_count' = irq_count + r.irq
           /\ event_err' =
                 LET c == ErrorCase(sctl_enabled, event_page_addr, eventno)
                 IN  IF c \in ErrorCases THEN [event_err EXCEPT ![c] = r.ret]
                     ELSE event_err
    /\ event_calls' = event_calls + 1
    /\ event_arg' = [sint |-> sint, eventno |-> eventno]
    /\ UNCHANGED <<post_rest, gsi, sctl_enabled, event_page_addr, sig_vars,
                   registry_vars, vtl_vars>>

\* synic_update(synic, sctl_enable, msg_page_addr, event_page_addr) with the
\* message page left where it is
synic_update(sctl_enable, addr) ==
    /\ ~event_oob
    /\ sctl_enabled # sctl_enable \/ event_page_addr # addr
    /\ sctl_enabled' = sctl_enable
    /\ event_page_addr' = addr
    /\ UNCHANGED <<post_rest, gsi, irq_count, event_page, event_oob, event_ret,
                   event_dirty_count, event_calls, event_arg, event_err,
                   sig_vars, registry_vars, vtl_vars>>

\* the guest handles the flags of one word of the page and clears them
guest_clear_flags(w) ==
    /\ ~event_oob
    /\ event_page_addr # 0
    /\ event_page[w] # {}
    /\ event_page' = [event_page EXCEPT ![w] = {}]
    /\ UNCHANGED <<post_rest, gsi, irq_count, sctl_enabled, event_page_addr,
                   event_oob, event_ret, event_dirty_count, event_calls,
                   event_arg, event_err, sig_vars, registry_vars, vtl_vars>>

EventNext ==
    \/ \E s \in Sints, e \in 0 .. HV_EVENT_FLAGS_COUNT + 1 :
           hyperv_set_event_flag(s, e)
    \/ \E en \in BOOLEAN, a \in {0, 1} : synic_update(en, a)
    \/ \E w \in PageWords : guest_clear_flags(w)

EventSpec == Init /\ [][EventNext]_vars

\* ------------------------------------------------------ claims C11 .. C13
EventCallStep == event_calls' = event_calls + 1

\* the flag word and the flag the call with arguments a is about
FlagWord(a) == a.sint * WordsPerSint + BIT_WORD(a.eventno)
FlagIsSet(page, a) == BIT_MASK(a.eventno) \subseteq page[FlagWord(a)]
OtherFlagsKept(a) ==
    /\ \A w \in PageWords \ {FlagWord(a)} : event_page'[w] = event_page[w]
    /\ event_page'[FlagWord(a)] \ BIT_MASK(a.eventno)
          = event_page[FlagWord(a)] \ BIT_MASK(a.eventno)

\* a call for a flag of the sint's vector on an enabled SynIC with a mapped page
ValidCallStep ==
    /\ EventCallStep
    /\ event_arg'.eventno < HV_EVENT_FLAGS_COUNT
    /\ sctl_enabled /\ event_page_addr # 0

\* C11 as stated: on an enabled SynIC with a mapped event page, a call for a
\* clear flag sets it, marks the page dirty and raises exactly one interrupt;
\* a call for a set flag changes nothing, marks nothing, raises nothing and
\* returns success.
C11_Edge ==
    ValidCallStep =>
        IF ~FlagIsSet(event_page, event_arg')
        THEN /\ FlagIsSet(event_page', event_arg')
             /\ event_dirty_count' = event_dirty_count + 1
             /\ irq_count' = irq_count + 1
        ELSE /\ event_ret' = StatusOk
             /\ UNCHANGED <<event_page, event_dirty_count, irq_count>>

C11_EdgeAmended ==
    ValidCallStep =>
        /\ event_ret' = StatusOk
        /\ OtherFlagsKept(event_arg')
        /\ IF ~FlagIsSet(event_page, event_arg')
           THEN /\ FlagIsSet(event_page', event_arg')
                /\ event_dirty_count' = event_dirty_count + 1
                /\ irq_count' = irq_count + (IF gsi # 0 THEN 1 ELSE 0)
           ELSE UNCHANGED <<event_page, event_dirty_count, irq_count>>

C12_Step ==
    (EventCallStep /\ event_arg'.eventno >= HV_EVENT_FLAGS_COUNT
                   /\ sctl_enabled /\ event_page_addr # 0) =>
        /\ event_ret' = StatusEINVAL
        /\ ~event_oob'
        /\ UNCHANGED <<event_page, event_dirty_count, irq_count>>

C12_OutOfRangeRejected == [][C12_Step]_vars

\* C13: the three error conditions return three pairwise different error
\* values, and a call under any of them changes no flag. (Stated for the
\* calls the code does reject; the index it lets through is C12's.)
C13_Step ==
    (EventCallStep /\ (\/ event_arg'.eventno > HV_EVENT_FLAGS_COUNT
                       \/ ~sctl_enabled
                       \/ event_page_addr = 0)) =>
        /\ event_ret' # StatusOk
        /\ UNCHANGED event_page

C13_DistinctErrors ==
    /\ [](\A c \in ErrorCases : \A d \in ErrorCases \ {c} :
             event_err[c] # "none" => event_err[c] # event_err[d])
    /\ [][C13_Step]_vars


\* ============================================== the connection registries
\* QLIST_FOREACH from entry n: the entry with conn_id c, or 0
RECURSIVE Find(_, _, _)
Find(nodes, n, c) ==
    IF n = 0 THEN 0
    ELSE IF nodes[n].conn_id = c THEN n
    ELSE Find(nodes, nodes[n].next, c)

\* the entries linked from entry n on
RECURSIVE Linked(_, _)
Linked(nodes, n) ==
    IF n = 0 THEN {} ELSE {n} \cup Linked(nodes, nodes[n].next)

\* what a lookup of conn_id c in the list from head finds: the handler, or
\* HV_STATUS_INVALID_CONNECTION_ID
Answer(nodes, head, c) ==
    LET n == Find(nodes, head, c)
    IN  IF n = 0 THEN HV_STATUS_INVALID_CONNECTION_ID ELSE nodes[n].handler

\* g_new: an entry of the heap that is not allocated
FreeNodes(nodes) == {n \in NodeIds : nodes[n].st = "free"}
g_new(nodes) == CHOOSE n \in FreeNodes(nodes) : \A m \in FreeNodes(nodes) : n <= m

\* QLIST_REMOVE_RCU(mh, link): the entry before mh, or the head, now points
\* past it; mh keeps its own link
QLIST_REMOVE_RCU(nodes, head, mh) ==
    [head  |-> IF head = mh THEN nodes[mh].next ELSE head,
     nodes |-> [n \in NodeIds |->
                  IF n = mh THEN [nodes[n] EXCEPT !.st = "removed"]
                  ELSE IF n \in Linked(nodes, head) /\ nodes[n].next = mh
                       THEN [nodes[n] EXCEPT !.next = nodes[mh].next]
                       ELSE nodes[n]]]

\* (mutant) a registration that does not look for an existing entry
set_handler_body_noscan(nodes, head, c, h) ==
    LET mh == Find(nodes, head, c) IN
    IF h # "NULL"
    THEN LET new == g_new(nodes) IN
         [head |-> new,
          nodes |-> [nodes EXCEPT ![new] = [conn_id |-> c, handler |-> h,
                                           next |-> head, st |-> "live"]],
          ret |-> StatusOk, removed |-> 0]
    ELSE IF mh # 0
    THEN LET q == QLIST_REMOVE_RCU(nodes, head, mh) IN
         [head |-> q.head, nodes |-> q.nodes, ret |-> StatusOk, removed |-> mh]
    ELSE [head |-> head, nodes |-> nodes, ret |-> StatusENOENT, removed |-> 0]

\* hyperv_set_msg_handler / set_event_flag_handler under handlers_mutex: the
\* list afterwards, the return value, and the entry handed to g_free_rcu
set_handler_body(nodes, head, c, h) ==
    LET mh == Find(nodes, head, c) IN
    IF mh # 0
    THEN IF h # "NULL"
         THEN [head |-> head, nodes |-> nodes, ret |-> StatusEEXIST, removed |-> 0]
         ELSE LET q == QLIST_REMOVE_RCU(nodes, head, mh) IN
              [head |-> q.head, nodes |-> q.nodes, ret |-> StatusOk,
               removed |-> mh]
    ELSE IF h # "NULL"
         THEN LET new == g_new(nodes) IN
              [head |-> new,
               nodes |-> [nodes EXCEPT ![new] = [conn_id |-> c, handler |-> h,
                                                next |-> head, st |-> "live"]],
               ret |-> StatusOk, removed |-> 0]
         ELSE [head |-> head, nodes |-> nodes, ret |-> StatusENOENT,
               removed |-> 0]

\* the readers inside an RCU read-side critical section
ActiveReaders == {r \in Readers : reg_pc[r] # "idle"}

\* (mutant) the entry is freed at once
g_free(active) == {}

\* g_free_rcu(mh, rcu): the entry is freed after a grace period, that is when
\* the readers now inside a critical section have left it
g_free_rcu(active) == active

\* QEMU_LOCK_GUARD(&handlers_mutex) at the entry of a register (h a handler)
\* or unregister (h NULL) call
set_handler_lock(w, reg, c, h) ==
    /\ ~reg_uaf
    /\ reg_pc[w] = "idle"
    /\ handlers_mutex = "none"
    /\ FreeNodes(reg_nodes) # {}
    /\ handlers_mutex' = w
    /\ reg_arg' = [reg_arg EXCEPT ![w] = [reg |-> reg, conn_id |-> c, handler |-> h]]
    /\ reg_pc' = [reg_pc EXCEPT ![w] = "locked"]
    /\ UNCHANGED <<post_vars, event_vars, vtl_vars, reg_head, reg_nodes, reg_grace,
                   reg_ret, lk, lk_answers, reg_uaf>>

\* the body of the call, and the unlock at its return
set_handler(w) ==
    /\ ~reg_uaf
    /\ reg_pc[w] = "locked"
    /\ LET a == reg_arg[w]
           r == set_handler_body(reg_nodes, reg_head[a.reg], a.conn_id, a.handler)
       IN  /\ reg_head' = [reg_head EXCEPT ![a.reg] = r.head]
           /\ reg_ret' = r.ret
           /\ LET grace == IF r.removed = 0 THEN reg_grace
                           ELSE [reg_grace EXCEPT ![r.removed] = g_free_rcu(ActiveReaders)]
              IN  \* an entry nobody has to be waited for is freed
                  /\ reg_grace' = grace
                  /\ reg_nodes' = [n \in NodeIds |->
                                     IF n = r.removed /\ grace[n] = {}
                                     THEN NoNode ELSE r.nodes[n]]
           /\ lk_answers' =
                 IF ActiveReaders # {} /\ lk.reg = a.reg
                 THEN lk_answers \cup {Answer(r.nodes, r.head, lk.conn_id)}
                 ELSE lk_answers
    /\ handlers_mutex' = "none"
    /\ reg_arg' = [reg_arg EXCEPT ![w] = NoArg]
    /\ reg_pc' = [reg_pc EXCEPT ![w] = "idle"]
    /\ lk' = IF ActiveReaders # {} /\ lk.reg = reg_arg[w].reg
                                    /\ lk.conn_id = reg_arg[w].conn_id
             THEN [lk EXCEPT !.touched = TRUE] ELSE lk
    /\ UNCHANGED <<post_vars, event_vars, vtl_vars, reg_uaf>>

\* rcu_read_lock and the first load of QLIST_FOREACH_RCU, in
\* hyperv_hcall_post_message or hyperv_hcall_signal_event
lookup_begin(r, reg, c) ==
    /\ ~reg_uaf
    /\ reg_pc[r] = "idle"
    /\ reg_pc' = [reg_pc EXCEPT ![r] = "walk"]
    /\ lk' = [reg |-> reg, conn_id |-> c, cur |-> reg_head[reg],
              result |-> "none", touched |-> FALSE,
              first |-> Answer(reg_nodes, reg_head[reg], c)]
    /\ lk_answers' = {Answer(reg_nodes, reg_head[reg], c)}
    /\ UNCHANGED <<post_vars, event_vars, vtl_vars, reg_head, reg_nodes, reg_grace,
                   handlers_mutex, reg_arg, reg_ret, reg_uaf>>

\* one turn of QLIST_FOREACH_RCU; at the end of the list or at the entry
\* looked for, the result and rcu_read_unlock
lookup_step(r) ==
    /\ ~reg_uaf
    /\ reg_pc[r] = "walk"
    /\ IF lk.cur # 0 /\ reg_nodes[lk.cur].st = "free"
       THEN /\ reg_uaf' = TRUE
            /\ UNCHANGED <<reg_pc, lk, lk_answers, reg_grace, reg_nodes>>
       ELSE IF lk.cur = 0 \/ reg_nodes[lk.cur].conn_id = lk.conn_id
       THEN /\ lk' = [lk EXCEPT !.cur = 0, !.result =
                         IF lk.cur = 0 THEN HV_STATUS_INVALID_CONNECTION_ID
                         ELSE reg_nodes[lk.cur].handler]
            /\ lk_answers' = {}
            /\ reg_pc' = [reg_pc EXCEPT ![r] = "idle"]
            /\ LET grace == [n \in NodeIds |-> reg_grace[n] \ {r}]
               IN  /\ reg_grace' = grace
                   /\ reg_nodes' = [n \in NodeIds |->
                                      IF reg_nodes[n].st = "removed" /\ grace[n] = {}
                                      THEN NoNode ELSE reg_nodes[n]]
            /\ UNCHANGED reg_uaf
       ELSE /\ lk' = [lk EXCEPT !.cur = reg_nodes[lk.cur].next]
            /\ UNCHANGED <<reg_pc, lk_answers, reg_grace, reg_nodes, reg_uaf>>
    /\ UNCHANGED <<post_vars, event_vars, vtl_vars, reg_head, handlers_mutex, reg_arg,
                   reg_ret>>

RegistryNext ==
    \/ \E w \in Writers, reg \in Registries, c \in ConnIds,
          h \in Handlers \cup {"NULL"} : set_handler_lock(w, reg, c, h)
    \/ \E w \in Writers : set_handler(w)
    \/ \E r \in Readers, reg \in Registries, c \in ConnIds : lookup_begin(r, reg, c)
    \/ \E r \in Readers : lookup_step(r)

RegistrySpec == Init /\ [][RegistryNext]_vars

\* ------------------------------------------------------ claims C14 .. C15
Entries(reg) == Linked(reg_nodes, reg_head[reg])
SetHandlerStep(w) == reg_pc[w] = "locked" /\ reg_pc'[w] = "idle"
LookupDone(r) == reg_pc[r] = "walk" /\ reg_pc'[r] = "idle"

\* C14: each registry holds at most one entry per conn_id; registering a
\* registered conn_id returns -EEXIST and unregistering one that is not
\* registered returns -ENOENT, both leaving the registry as it is; the other
\* calls succeed (so a registration after an unregistration does), and no
\* call changes what another conn_id or the other registry answers.
C14_Call(w) ==
    LET a == reg_arg[w]
        old == Answer(reg_nodes, reg_head[a.reg], a.conn_id)
        new == Answer(reg_nodes', reg_head'[a.reg], a.conn_id)
    IN  /\ (a.handler # "NULL" /\ old # HV_STATUS_INVALID_CONNECTION_ID) =>
               (reg_ret' = StatusEEXIST /\ new = old /\ UNCHANGED <<reg_head, reg_nodes>>)
        /\ (a.handler = "NULL" /\ old = HV_STATUS_INVALID_CONNECTION_ID) =>
               (reg_ret' = StatusENOENT /\ UNCHANGED <<reg_head, reg_nodes>>)
        /\ (a.handler # "NULL" /\ old = HV_STATUS_INVALID_CONNECTION_ID) =>
               (reg_ret' = StatusOk /\ new = a.handler)
        /\ (a.handler = "NULL" /\ old # HV_STATUS_INVALID_CONNECTION_ID) =>
               (reg_ret' = StatusOk /\ new = HV_STATUS_INVALID_CONNECTION_ID)
        /\ \A reg \in Registries, c \in ConnIds :
               (reg # a.reg \/ c # a.conn_id) =>
                   Answer(reg_nodes', reg_head'[reg], c)
                       = Answer(reg_nodes, reg_head[reg], c)

C14_OneEntryPerConnId ==
    /\ [](\A reg \in Registries, c \in ConnIds :
             Cardinality({n \in Entries(reg) : reg_nodes[n].conn_id = c}) <= 1)
    /\ [][\A w \in Writers : SetHandlerStep(w) => C14_Call(w)]_vars

\* a conn_id is registered again, with another handler, while the entry of
\* its earlier registration still waits to be freed
C14_Witness ==
    /\ reg_ret = StatusOk
    /\ \E reg \in Registries, c \in ConnIds, n \in NodeIds :
          /\ Answer(reg_nodes, reg_head[reg], c) = "h2"
          /\ reg_nodes[n].st = "removed" /\ reg_nodes[n].conn_id = c
          /\ reg_nodes[n].handler = "h1"
          /\ lk.reg = reg

\* C15: a lookup is never kept waiting by a writer that holds
\* handlers_mutex, never reads a freed entry, returns what the registry
\* answered when it began if no concurrent call was about its conn_id, and
\* else one of the answers the registry held while it ran.
C15_LookupConsistent ==
    /\ [](~reg_uaf)
    /\ [](\A r \in Readers :
             /\ reg_pc[r] = "walk" => ENABLED lookup_step(r)
             /\ reg_pc[r] = "idle" =>
                   \A reg \in Registries, c \in ConnIds : ENABLED lookup_begin(r, reg, c))
    /\ [][\A r \in Readers : LookupDone(r) =>
              /\ lk'.result \in lk_answers
              /\ ~lk.touched => lk'.result = lk.first]_vars

\* a lookup that began before its conn_id was registered anew returned the
\* old handler from an unlinked entry, while handlers_mutex was held
C15_Witness ==
    /\ \A r \in Readers : reg_pc[r] = "idle"
    /\ lk.touched /\ lk.result = "h1" /\ lk.first = "h1"
    /\ Answer(reg_nodes, reg_head[lk.reg], lk.conn_id) = "h2"
    /\ handlers_mutex # "none"

---------------------------------------------------------------------------
\* Virtual trust levels.  One logical processor; the vCPU object of VTL v is
\* the one with cpu_index v, and a context runs while its stopped flag is
\* clear.  The guest issues hypercalls from the context that runs; the
\* interrupt path runs in the event loop ("el").

get_active_vtl(cs) == cs

\* qemu_get_cpu(vtl) is NULL when there is no such vCPU
hyperv_vsm_vcpu_is_null(vtl) == vtl \notin cpu_exists

hyperv_get_next_vtl(cs) == get_active_vtl(cs) + 1

hyperv_get_prev_vtl(cs) == get_active_vtl(cs) - 1

\* the part of a context kept across a switch
PrivFields == {"gsbase", "msr_hv_synic_control", "exception_nr", "rip",
               "cr3", "dr7", "gs_base", "ldt"}

\* A segment register is a number: bit 0 stands for what the guest's
\* hv_x64_segment_register and the vCPU's SegmentCache both hold (selector,
\* base, limit, attribute bits), bit 1 for the reserved attribute bits,
\* which the SegmentCache has no place for.
hyperv_set_seg(rhs) == rhs % 2

hyperv_get_seg(lhs) == lhs % 2

hyperv_save_priv_vtl_state(e) ==
    [f \in PrivFields |-> IF f = "ldt" THEN hyperv_get_seg(e[f]) ELSE e[f]]

\* the context handed to hyperv_set_vtl_cpu_state: instruction pointer
\* (stack pointer and flags go the same way), control registers and
\* segment registers; the base-register fields follow the segment bases
hyperv_set_vtl_cpu_state(e, c) ==
    [e EXCEPT !["rip"] = c.rip, !["cr3"] = c.cr3, !["gs_base"] = c.gs_base,
              !["gsbase"] = c.gs_base, !["ldt"] = hyperv_set_seg(c.ldtr)]

hyperv_restore_priv_vtl_state(e, priv) ==
    hyperv_set_vtl_cpu_state(
        [e EXCEPT !["gsbase"] = priv["gsbase"],
                  !["msr_hv_synic_control"] = priv["msr_hv_synic_control"],
                  !["exception_nr"] = priv["exception_nr"]],
        [rip |-> priv["rip"], cr3 |-> priv["cr3"],
         gs_base |-> priv["gs_base"], ldtr |-> priv["ldt"]])

\* (mutant) nothing is copied
hyperv_sync_shared_vtl_state_nocopy(active_env, next_env) == next_env

\* save the private state of next, copy the whole of active over next,
\* restore the private state
hyperv_sync_shared_vtl_state(active_env, next_env) ==
    hyperv_restore_priv_vtl_state(active_env,
                                  hyperv_save_priv_vtl_state(next_env))

\* a context that executes guest code: it exists, is not stopped, and is
\* not inside a hypercall handler
InGuest(c) ==
    /\ ~vtl_crashed
    /\ c \in cpu_exists
    /\ ~cpu_stopped[c]
    /\ vtl_pc[c] = "idle"

enable_partition_vtl_body_norecheck(set, fast, self, enable_mbec, target_vtl) ==
    IF ~fast THEN [set |-> set, ret |-> HV_STATUS_INVALID_HYPERCALL_CODE]
    ELSE IF ~self THEN [set |-> set, ret |-> HV_STATUS_INVALID_PARTITION_ID]
    ELSE IF enable_mbec THEN [set |-> set, ret |-> HV_STATUS_INVALID_PARAMETER]
    ELSE IF target_vtl > maximum_vtl
    THEN [set |-> set, ret |-> HV_STATUS_INVALID_PARAMETER]
    ELSE [set |-> set \cup {target_vtl}, ret |-> HV_STATUS_SUCCESS]

enable_partition_vtl_body(set, fast, self, enable_mbec, target_vtl) ==
    IF ~fast THEN [set |-> set, ret |-> HV_STATUS_INVALID_HYPERCALL_CODE]
    ELSE IF ~self THEN [set |-> set, ret |-> HV_STATUS_INVALID_PARTITION_ID]
    ELSE IF enable_mbec THEN [set |-> set, ret |-> HV_STATUS_INVALID_PARAMETER]
    ELSE IF target_vtl > maximum_vtl
    THEN [set |-> set, ret |-> HV_STATUS_INVALID_PARAMETER]
    ELSE IF target_vtl \in set
    THEN [set |-> set, ret |-> HV_STATUS_INVALID_PARAMETER]
    ELSE [set |-> set \cup {target_vtl}, ret |-> HV_STATUS_SUCCESS]

hyperv_hcall_vtl_enable_partition_vtl(cs, fast, self, enable_mbec, target_vtl) ==
    /\ InGuest(cs)
    /\ LET r == enable_partition_vtl_body(partition_enabled_vtl_set, fast,
                                          self, enable_mbec, target_vtl)
       IN /\ partition_enabled_vtl_set' = r.set
          /\ vtl_ret' = Returned("enable_partition_vtl", r.ret)
    /\ UNCHANGED <<post_vars, event_vars, registry_vars, access_vars, assist_vars, el_pc, el_sw, cpu_exists,
                   cpu_stopped, cpu_stop, env, vp_enabled_vtl_set,
                   notifier_pending, iothread_lock, vtl_pc,
                   vtl_sw, vtl_crashed, vtl_writes>>

\* (mutant) the partition's enabled set is not consulted
enable_vp_vtl_check_nopart(part_set, vp_set, fast, map_ok, self, vp_index_ok, target_vtl) ==
    IF fast THEN HV_STATUS_INVALID_HYPERCALL_INPUT
    ELSE IF ~map_ok THEN HV_STATUS_INVALID_PARAMETER
    ELSE IF ~self THEN HV_STATUS_INVALID_PARTITION_ID
    ELSE IF ~vp_index_ok THEN HV_STATUS_INVALID_VP_INDEX
    ELSE IF target_vtl > maximum_vtl THEN HV_STATUS_INVALID_PARAMETER
    ELSE IF target_vtl \in vp_set THEN HV_STATUS_INVALID_PARAMETER
    ELSE HV_STATUS_SUCCESS

\* the checks of the enable-VP-VTL handler, before it creates anything
enable_vp_vtl_check(part_set, vp_set, fast, map_ok, self, vp_index_ok, target_vtl) ==
    IF fast THEN HV_STATUS_INVALID_HYPERCALL_INPUT
    ELSE IF ~map_ok THEN HV_STATUS_INVALID_PARAMETER
    ELSE IF ~self THEN HV_STATUS_INVALID_PARTITION_ID
    ELSE IF ~vp_index_ok THEN HV_STATUS_INVALID_VP_INDEX
    ELSE IF target_vtl > maximum_vtl THEN HV_STATUS_INVALID_PARAMETER
    ELSE IF target_vtl \notin part_set THEN HV_STATUS_INVALID_PARAMETER
    ELSE IF target_vtl \in vp_set THEN HV_STATUS_INVALID_PARAMETER
    ELSE HV_STATUS_SUCCESS

\* a vCPU object as x86_cpu_new leaves it: reset registers, not running
x86_cpu_new_stopped == TRUE

\* When the checks pass the handler creates the vCPU of the target VTL, adds
\* its VpVsmState (enabled set {0}) and loads the initial context.  A
\* call from the context that is itself the target VTL adds a second
\* "vp-vsm" child to its own vCPU object, which aborts.
hyperv_hcall_vtl_enable_vp_vtl(cs, fast, map_ok, self, vp_index_ok, target_vtl) ==
    /\ InGuest(cs)
    /\ LET st == enable_vp_vtl_check(partition_enabled_vtl_set,
                                     vp_enabled_vtl_set[cs], fast, map_ok,
                                     self, vp_index_ok, target_vtl)
           \* the checks up to the partition's enabled set passed: the
           \* caller gets its VpVsmState if it has none
           reached == enable_vp_vtl_check(partition_enabled_vtl_set, {}, fast,
                                          map_ok, self, vp_index_ok,
                                          target_vtl) = HV_STATUS_SUCCESS
       IN IF st # HV_STATUS_SUCCESS
          THEN /\ vtl_ret' = Returned("enable_vp_vtl", st)
               /\ vp_vsm' = IF reached THEN vp_vsm \cup {cs} ELSE vp_vsm
               /\ UNCHANGED <<cpu_exists, cpu_stopped, env, vp_enabled_vtl_set,
                              vtl_crashed>>
          ELSE IF target_vtl \in cpu_exists
          THEN /\ iothread_lock = "none"
               /\ vtl_crashed' = TRUE
               /\ vp_vsm' = vp_vsm \cup {cs}
               /\ UNCHANGED <<cpu_exists, cpu_stopped, env, vp_enabled_vtl_set,
                              vtl_ret>>
          ELSE /\ iothread_lock = "none"
               /\ vp_vsm' = vp_vsm \cup {cs, target_vtl}
               /\ cpu_exists' = cpu_exists \cup {target_vtl}
               /\ cpu_stopped' = [cpu_stopped EXCEPT
                                    ![target_vtl] = x86_cpu_new_stopped]
               /\ \E v \in InitContextValues :
                     env' = [env EXCEPT ![target_vtl] =
                               hyperv_set_vtl_cpu_state(ResetEnv,
                                   [rip |-> v, cr3 |-> v, gs_base |-> v,
                                    ldtr |-> v])]
               /\ vp_enabled_vtl_set' =
                     [vp_enabled_vtl_set EXCEPT
                        ![target_vtl] = {0},
                        ![cs] = vp_enabled_vtl_set[cs] \cup {target_vtl}]
               /\ vtl_ret' = Returned("enable_vp_vtl", HV_STATUS_SUCCESS)
               /\ UNCHANGED vtl_crashed
    /\ UNCHANGED <<post_vars, event_vars, registry_vars, access_vars, vp_assist,
                   vtl_entry_reason, el_pc, el_sw, partition_enabled_vtl_set,
                   cpu_stop, notifier_pending, iothread_lock, vtl_pc, vtl_sw,
                   vtl_writes>>

\* hyperv_setup_vp_assist: the old mapping is unmapped but the pointer is
\* left as it was; a new mapping is made only when the page is enabled
hyperv_setup_vp_assist_body(has_vsm, assist, enable, map_ok) ==
    IF ~has_vsm THEN assist
    ELSE LET unmapped == IF assist = "null" THEN "null" ELSE "unmapped"
         IN IF ~enable THEN unmapped
            ELSE IF map_ok THEN "mapped" ELSE "null"

\* the guest of context cs writes the VP assist page MSR
hyperv_setup_vp_assist(cs, enable, map_ok) ==
    /\ InGuest(cs)
    /\ vp_assist' = [vp_assist EXCEPT ![cs] =
                       hyperv_setup_vp_assist_body(cs \in vp_vsm, @, enable,
                                                   map_ok)]
    /\ UNCHANGED <<post_vars, event_vars, registry_vars, access_vars, vp_vsm,
                   vtl_entry_reason, el_pc, el_sw, partition_enabled_vtl_set,
                   cpu_exists, cpu_stopped, cpu_stop, env, vp_enabled_vtl_set,
                   notifier_pending, iothread_lock, vtl_pc, vtl_sw, vtl_ret,
                   vtl_crashed, vtl_writes>>

\* what a write through a pointer that outlived its mapping may do
StaleWrites == {"lands", "lost", "crash"}

\* set_vtl_entry_reason: writes when the vCPU has a VpVsmState whose
\* vp_assist is not NULL
set_vtl_entry_reason(cs, reason, stale) ==
    IF cs \in vp_vsm /\ vp_assist[cs] # "null"
    THEN IF vp_assist[cs] = "mapped" \/ stale = "lands"
         THEN [page |-> [vtl_entry_reason EXCEPT ![cs] = reason],
               crash |-> FALSE]
         ELSE [page |-> vtl_entry_reason, crash |-> stale = "crash"]
    ELSE [page |-> vtl_entry_reason, crash |-> FALSE]

\* The VTL call handler up to switch_vtl.  hyperv_get_next_vtl asserts on
\* the cpu_index of the vCPU it found before anyone tests it for NULL:
\* with no vCPU of the next level the process dies, or (the load not
\* trapping) the handler gets to its own NULL test and returns -1.
hyperv_hcall_vtl_call(cs, survives) ==
    /\ InGuest(cs)
    /\ LET next_cs == hyperv_get_next_vtl(cs)
       IN IF hyperv_vsm_vcpu_is_null(next_cs)
          THEN /\ IF survives
                  THEN vtl_ret' = Returned("vtl_call", "-1")
                       /\ UNCHANGED vtl_crashed
                  ELSE vtl_crashed' = TRUE /\ UNCHANGED vtl_ret
               /\ UNCHANGED <<vtl_pc, vtl_sw, vtl_entry_reason>>
          ELSE IF get_active_vtl(cs) > 1
          THEN /\ vtl_ret' = Returned("vtl_call", "-1")
               /\ UNCHANGED <<vtl_crashed, vtl_pc, vtl_sw, vtl_entry_reason>>
          ELSE \E stale \in StaleWrites :
                  LET w == set_vtl_entry_reason(next_cs, HV_VTL_ENTRY_VTL_CALL,
                                                stale)
                  IN /\ vtl_entry_reason' = w.page
                     /\ vtl_crashed' = w.crash
                     /\ vtl_pc' = IF w.crash THEN vtl_pc
                                  ELSE [vtl_pc EXCEPT ![cs] = "sync"]
                     /\ vtl_sw' = [vtl_sw EXCEPT
                                     ![cs] = [active |-> cs, next |-> next_cs]]
                     /\ UNCHANGED vtl_ret
    /\ UNCHANGED <<post_vars, event_vars, registry_vars, access_vars, vp_vsm, vp_assist,
                   el_pc, el_sw, partition_enabled_vtl_set, cpu_exists,
                   cpu_stopped, cpu_stop, env, vp_enabled_vtl_set,
                   notifier_pending, iothread_lock, vtl_writes>>

\* The VTL return handler up to switch_vtl: it tests nothing.  From VTL0
\* hyperv_get_prev_vtl asserts on the cpu_index of a NULL vCPU and
\* switch_vtl is then handed the NULL; the process dies.
hyperv_hcall_vtl_return(cs) ==
    /\ InGuest(cs)
    /\ LET next_cs == hyperv_get_prev_vtl(cs)
       IN IF hyperv_vsm_vcpu_is_null(next_cs)
          THEN /\ vtl_crashed' = TRUE
               /\ UNCHANGED <<vtl_pc, vtl_sw>>
          ELSE /\ vtl_pc' = [vtl_pc EXCEPT ![cs] = "sync"]
               /\ vtl_sw' = [vtl_sw EXCEPT
                               ![cs] = [active |-> cs, next |-> next_cs]]
               /\ UNCHANGED vtl_crashed
    /\ UNCHANGED <<post_vars, event_vars, registry_vars, access_vars, assist_vars, el_pc, el_sw,
                   partition_enabled_vtl_set, cpu_exists, cpu_stopped,
                   cpu_stop, env, vp_enabled_vtl_set, notifier_pending, iothread_lock, vtl_ret, vtl_writes>>

cpu_resume(stopped, cpu) == [stopped EXCEPT ![cpu] = FALSE]

\* (mutant) the vCPU is left running
qemu_cpu_stop_skip(stopped, cpu) == stopped

qemu_cpu_stop(stopped, cpu) == [stopped EXCEPT ![cpu] = TRUE]

\* switch_vtl, first statements: take the iothread lock and transplant
switch_vtl_sync(t) ==
    /\ ~vtl_crashed
    /\ t \in Vtls
    /\ vtl_pc[t] = "sync"
    /\ iothread_lock = "none"
    /\ iothread_lock' = "vcpu"
    /\ env' = [env EXCEPT ![vtl_sw[t].next] =
                 hyperv_sync_shared_vtl_state(env[vtl_sw[t].active],
                                              env[vtl_sw[t].next])]
    /\ vtl_pc' = [vtl_pc EXCEPT ![t] = "resume"]
    /\ UNCHANGED <<post_vars, event_vars, registry_vars, access_vars, assist_vars, el_pc, el_sw,
                   partition_enabled_vtl_set, cpu_exists, cpu_stopped,
                   cpu_stop, vp_enabled_vtl_set, notifier_pending, vtl_sw, vtl_ret, vtl_crashed, vtl_writes>>

\* switch_vtl: cpu_resume(next_cs)
switch_vtl_resume(t) ==
    /\ ~vtl_crashed
    /\ t \in Vtls
    /\ vtl_pc[t] = "resume"
    /\ cpu_stopped' = cpu_resume(cpu_stopped, vtl_sw[t].next)
    /\ cpu_stop' = [cpu_stop EXCEPT ![vtl_sw[t].next] = FALSE]
    /\ vtl_pc' = [vtl_pc EXCEPT ![t] = "stop"]
    /\ UNCHANGED <<post_vars, event_vars, registry_vars, access_vars, assist_vars, el_pc, el_sw,
                   partition_enabled_vtl_set, cpu_exists, env,
                   vp_enabled_vtl_set, notifier_pending,
                   iothread_lock, vtl_sw, vtl_ret, vtl_crashed, vtl_writes>>

\* switch_vtl: qemu_cpu_stop(active_cs, true), unlock; the handler returns
switch_vtl_stop(t) ==
    /\ ~vtl_crashed
    /\ t \in Vtls
    /\ vtl_pc[t] = "stop"
    /\ cpu_stopped' = qemu_cpu_stop(cpu_stopped, vtl_sw[t].active)
    /\ cpu_stop' = [cpu_stop EXCEPT ![vtl_sw[t].active] = FALSE]
    /\ iothread_lock' = "none"
    /\ vtl_pc' = [vtl_pc EXCEPT ![t] = "idle"]
    /\ vtl_ret' = Returned(IF vtl_sw[t].next > vtl_sw[t].active
                            THEN "vtl_call" ELSE "vtl_return", EXCP_HALTED)
    /\ UNCHANGED <<post_vars, event_vars, registry_vars, access_vars, assist_vars, el_pc, el_sw,
                   partition_enabled_vtl_set, cpu_exists, env,
                   vp_enabled_vtl_set, notifier_pending,
                   vtl_sw, vtl_crashed, vtl_writes>>

\* an interrupt for a VTL signals the notifier of its vCPU
vp_vsm_notify(n) ==
    /\ ~vtl_crashed
    /\ n \in vp_vsm
    /\ ~notifier_pending[n]
    /\ notifier_pending' = [notifier_pending EXCEPT ![n] = TRUE]
    /\ UNCHANGED <<post_vars, event_vars, registry_vars, access_vars, assist_vars, el_pc, el_sw,
                   partition_enabled_vtl_set, cpu_exists, cpu_stopped,
                   cpu_stop, env, vp_enabled_vtl_set, iothread_lock, vtl_pc, vtl_sw, vtl_ret, vtl_crashed,
                   vtl_writes>>

\* vp_vsm_notifier, in the event loop with the iothread lock, up to
\* wait_cpu_stopped (which waits without the lock)
vp_vsm_notifier(n) ==
    /\ ~vtl_crashed
    /\ el_pc = "idle"
    /\ iothread_lock = "none"
    /\ notifier_pending[n]
    /\ notifier_pending' = [notifier_pending EXCEPT ![n] = FALSE]
    /\ IF get_active_vtl(n) = 0 \/ ~cpu_stopped[n]
       THEN UNCHANGED <<cpu_stop, el_pc, el_sw>>
       ELSE /\ cpu_stop' = [cpu_stop EXCEPT ![hyperv_get_prev_vtl(n)] = TRUE]
            /\ el_pc' = "wait"
            /\ el_sw' = [active |-> hyperv_get_prev_vtl(n), next |-> n]
    /\ UNCHANGED <<post_vars, event_vars, registry_vars, access_vars, assist_vars, vtl_pc, vtl_sw,
                   partition_enabled_vtl_set, cpu_exists, cpu_stopped, env,
                   vp_enabled_vtl_set, iothread_lock,
                   vtl_ret, vtl_crashed, vtl_writes>>

\* the vCPU thread of a context in guest mode sees the stop request
vcpu_thread_stop(c) ==
    /\ InGuest(c)
    /\ cpu_stop[c]
    /\ iothread_lock = "none"
    /\ cpu_stopped' = qemu_cpu_stop(cpu_stopped, c)
    /\ cpu_stop' = [cpu_stop EXCEPT ![c] = FALSE]
    /\ UNCHANGED <<post_vars, event_vars, registry_vars, access_vars, assist_vars, el_pc, el_sw,
                   partition_enabled_vtl_set, cpu_exists, env,
                   vp_enabled_vtl_set, notifier_pending,
                   iothread_lock, vtl_pc, vtl_sw, vtl_ret, vtl_crashed,
                   vtl_writes>>

\* vp_vsm_notifier after the wait: entry reason, transplant
vp_vsm_notifier_sync ==
    /\ ~vtl_crashed
    /\ el_pc = "wait"
    /\ cpu_stopped[el_sw.active]
    /\ iothread_lock = "none"
    /\ \E stale \in StaleWrites :
          LET w == set_vtl_entry_reason(el_sw.next, HV_VTL_ENTRY_INTERRUPT,
                                        stale)
          IN /\ vtl_entry_reason' = w.page
             /\ vtl_crashed' = w.crash
             /\ IF w.crash
                THEN UNCHANGED <<iothread_lock, env, el_pc>>
                ELSE /\ iothread_lock' = "el"
                     /\ env' = [env EXCEPT ![el_sw.next] =
                                  hyperv_sync_shared_vtl_state(
                                      env[el_sw.active], env[el_sw.next])]
                     /\ el_pc' = "resume"
    /\ UNCHANGED <<post_vars, event_vars, registry_vars, access_vars, vp_vsm, vp_assist,
                   el_sw, vtl_pc, partition_enabled_vtl_set, cpu_exists,
                   cpu_stopped, cpu_stop, vp_enabled_vtl_set, notifier_pending,
                   vtl_sw, vtl_ret, vtl_writes>>

\* vp_vsm_notifier: cpu_resume(next_cs); the handler returns
vp_vsm_notifier_resume ==
    /\ ~vtl_crashed
    /\ el_pc = "resume"
    /\ cpu_stopped' = cpu_resume(cpu_stopped, el_sw.next)
    /\ cpu_stop' = [cpu_stop EXCEPT ![el_sw.next] = FALSE]
    /\ iothread_lock' = "none"
    /\ el_pc' = "idle"
    /\ UNCHANGED <<post_vars, event_vars, registry_vars, access_vars, assist_vars, el_sw, vtl_pc,
                   partition_enabled_vtl_set, cpu_exists, env,
                   vp_enabled_vtl_set, notifier_pending,
                   vtl_sw, vtl_ret, vtl_crashed, vtl_writes>>

\* the guest in context c writes one of its registers; the GS base MSR and
\* the base of the GS segment are one architectural register
guest_write_reg(c, f, v) ==
    /\ InGuest(c)
    /\ vtl_writes < MaxWrites
    /\ env[c][f] # v
    /\ env' = [env EXCEPT ![c] =
                 IF f \in {"gsbase", "gs_base"}
                 THEN [@ EXCEPT !["gsbase"] = v, !["gs_base"] = v]
                 ELSE [@ EXCEPT ![f] = v]]
    /\ vtl_writes' = vtl_writes + 1
    /\ UNCHANGED <<post_vars, event_vars, registry_vars, access_vars, assist_vars, el_pc, el_sw,
                   partition_enabled_vtl_set, cpu_exists, cpu_stopped,
                   cpu_stop, vp_enabled_vtl_set, notifier_pending, iothread_lock, vtl_pc, vtl_sw, vtl_ret,
                   vtl_crashed>>

\* the register names of GET/SET_VP_REGISTERS: a register of env, the VP
\* status (read only), a secure config register, and a name outside the
\* switch statements
EnvNames == {"dr7"}
HV_REGISTER_VSM_VP_STATUS == "HV_REGISTER_VSM_VP_STATUS"
HV_REGISTER_VSM_VP_SECURE_CONFIG_VTL0 == "HV_REGISTER_VSM_VP_SECURE_CONFIG_VTL0"
UnknownName == "unknown"
RegNames == EnvNames \cup {HV_REGISTER_VSM_VP_STATUS,
                           HV_REGISTER_VSM_VP_SECURE_CONFIG_VTL0, UnknownName}

\* more of the names of the two switch statements: registers whose value
\* is val->low (RIP, DR7), a register that goes through hyperv_set_seg and
\* hyperv_get_seg (LDTR), the partition config and the secure config of
\* the next VTL
ScalarNames == {"rip", "dr7"}
SegNames == {"ldt"}
HV_REGISTER_VSM_PARTITION_CONFIG == "HV_REGISTER_VSM_PARTITION_CONFIG"
HV_REGISTER_VSM_VP_SECURE_CONFIG_VTL1 == "HV_REGISTER_VSM_VP_SECURE_CONFIG_VTL1"
SecureConfigNames == {HV_REGISTER_VSM_VP_SECURE_CONFIG_VTL0,
                      HV_REGISTER_VSM_VP_SECURE_CONFIG_VTL1}

\* reg - HV_REGISTER_VSM_VP_SECURE_CONFIG_VTL0
secure_config_reg_vtl(name) ==
    IF name = HV_REGISTER_VSM_VP_SECURE_CONFIG_VTL0 THEN 0 ELSE 1

\* (mutant) any secure config register of any context may be accessed
vsm_vp_secure_vtl_config_any(target_vcpu, reg_vtl) == TRUE

\* get_vsm_vp_secure_vtl_config / set_vsm_vp_secure_vtl_config: reg_vtl is
\* the name's distance from ..._CONFIG_VTL0
vsm_vp_secure_vtl_config_ok(target_vcpu, reg_vtl) ==
    ~(get_active_vtl(target_vcpu) = 0 \/ reg_vtl >= get_active_vtl(target_vcpu))

\* the status of get_vp_register; "crash" where it dereferences the NULL
\* VpVsmState of a vCPU that has none
get_vp_register(name, target_vcpu) ==
    IF name \in ScalarNames \cup SegNames THEN HV_STATUS_SUCCESS
    ELSE IF name = HV_REGISTER_VSM_VP_STATUS
    THEN IF target_vcpu \in vp_vsm THEN HV_STATUS_SUCCESS ELSE "crash"
    ELSE IF name = HV_REGISTER_VSM_PARTITION_CONFIG THEN HV_STATUS_SUCCESS
    ELSE IF name \in SecureConfigNames
    THEN IF vsm_vp_secure_vtl_config_ok(target_vcpu, secure_config_reg_vtl(name))
         THEN HV_STATUS_SUCCESS ELSE HV_STATUS_INVALID_PARAMETER
    ELSE HV_STATUS_INVALID_PARAMETER

set_vp_register(name, target_vcpu) ==
    IF name \in ScalarNames \cup SegNames THEN HV_STATUS_SUCCESS
    ELSE IF name = HV_REGISTER_VSM_PARTITION_CONFIG THEN HV_STATUS_SUCCESS
    ELSE IF name \in SecureConfigNames
    THEN IF vsm_vp_secure_vtl_config_ok(target_vcpu, secure_config_reg_vtl(name))
         THEN HV_STATUS_SUCCESS ELSE HV_STATUS_INVALID_PARAMETER
    ELSE HV_STATUS_INVALID_PARAMETER

\* the VTL the registers are taken from
get_set_vtl(cs, i) ==
    IF i.use_target_vtl THEN i.target_vtl ELSE get_active_vtl(cs)

\* what hyperv_hcall_get_set_vp_register returns; with no register to
\* handle the loop never assigns status and the value returned is
\* "indeterminate"
get_set_vp_register_status(cs, set, i) ==
    IF i.fast_cont THEN HV_STATUS_INVALID_HYPERCALL_INPUT
    ELSE IF ~i.self THEN HV_STATUS_INVALID_PARTITION_ID
    ELSE IF i.use_target_vtl /\ i.target_vtl >= HV_NUM_VTLS
    THEN HV_STATUS_INVALID_HYPERCALL_INPUT
    ELSE IF i.use_target_vtl /\ i.target_vtl > get_active_vtl(cs)
    THEN HV_STATUS_ACCESS_DENIED
    ELSE IF ~i.vp_index_ok THEN HV_STATUS_INVALID_VP_INDEX
    ELSE IF i.nregs = 0 THEN "indeterminate"
    ELSE IF set THEN set_vp_register(i.name, get_set_vtl(cs, i))
    ELSE get_vp_register(i.name, get_set_vtl(cs, i))

\* the statuses the handler returns before it looks at a register
GetSetEarly == {HV_STATUS_INVALID_HYPERCALL_INPUT, HV_STATUS_INVALID_PARTITION_ID,
                HV_STATUS_ACCESS_DENIED, HV_STATUS_INVALID_VP_INDEX}

\* GET/SET_VP_REGISTERS with at most one register.  The registers are
\* handled with the iothread lock taken; a set of an env register writes
\* the guest's value into the vCPU of the chosen VTL.
hyperv_hcall_get_set_vp_register(cs, set, i) ==
    /\ InGuest(cs)
    /\ LET st == get_set_vp_register_status(cs, set, i)
           target_vcpu == get_set_vtl(cs, i)
       IN /\ st \notin GetSetEarly => iothread_lock = "none"
          /\ IF st = "crash"
             THEN /\ vtl_crashed' = TRUE
                  /\ UNCHANGED <<vtl_ret, env, vtl_writes, vsm_vtl_config>>
             ELSE IF st = "indeterminate"
             THEN /\ \E garbage \in {HV_STATUS_SUCCESS, "indeterminate"} :
                        vtl_ret' = Returned("get_set_vp_register", garbage)
                  /\ UNCHANGED <<vtl_crashed, env, vtl_writes, vsm_vtl_config>>
             ELSE /\ vtl_ret' = Returned("get_set_vp_register", st)
                  /\ IF set /\ st = HV_STATUS_SUCCESS /\ i.name \in EnvNames
                     THEN /\ vtl_writes < MaxWrites
                          /\ \E val \in RegValues \ {env[target_vcpu][i.name]} :
                                env' = [env EXCEPT
                                          ![target_vcpu][i.name] = val]
                          /\ vtl_writes' = vtl_writes + 1
                          /\ UNCHANGED vsm_vtl_config
                     ELSE IF set /\ st = HV_STATUS_SUCCESS
                             /\ i.name = HV_REGISTER_VSM_VP_SECURE_CONFIG_VTL0
                     THEN /\ vtl_writes < MaxWrites
                          /\ \E val \in RegValues \ {vsm_vtl_config[target_vcpu][0]} :
                                vsm_vtl_config' = [vsm_vtl_config EXCEPT
                                                     ![target_vcpu][0] = val]
                          /\ vtl_writes' = vtl_writes + 1
                          /\ UNCHANGED env
                     ELSE UNCHANGED <<env, vtl_writes, vsm_vtl_config>>
                  /\ UNCHANGED vtl_crashed
    /\ UNCHANGED <<post_vars, event_vars, registry_vars, assist_vars, el_pc,
                   el_sw, partition_enabled_vtl_set, cpu_exists, cpu_stopped,
                   cpu_stop, vp_enabled_vtl_set, notifier_pending,
                   iothread_lock, vtl_pc, vtl_sw, hv_vsm_partition_config,
                   regs_call, regs_out, regs_calls>>

\* its inputs: one register of any name on the caller's VTL; an env
\* register with an explicit target VTL; no register; or wrong in one way
GetSetOk == [fast_cont |-> FALSE, self |-> TRUE, use_target_vtl |-> FALSE,
             target_vtl |-> 0, vp_index_ok |-> TRUE, nregs |-> 1,
             name |-> "dr7"]

GetSetInputs ==
    {[GetSetOk EXCEPT !.name = n] : n \in RegNames}
    \cup {[GetSetOk EXCEPT !.use_target_vtl = TRUE, !.target_vtl = t] :
             t \in 0 .. HV_NUM_VTLS}
    \cup {[GetSetOk EXCEPT !.nregs = 0],
          [GetSetOk EXCEPT !.fast_cont = TRUE],
          [GetSetOk EXCEPT !.self = FALSE],
          [GetSetOk EXCEPT !.vp_index_ok = FALSE]}

\* the inputs of the two enable hypercalls: well formed with any target
\* VTL (one above the maximum included), or wrong in one way
PartitionInputs ==
    {[fast |-> TRUE, self |-> TRUE, enable_mbec |-> FALSE, target_vtl |-> t] :
        t \in 0 .. HV_NUM_VTLS}
    \cup {[fast |-> FALSE, self |-> TRUE, enable_mbec |-> FALSE, target_vtl |-> 1],
          [fast |-> TRUE, self |-> FALSE, enable_mbec |-> FALSE, target_vtl |-> 1],
          [fast |-> TRUE, self |-> TRUE, enable_mbec |-> TRUE, target_vtl |-> 1]}

VpInputs ==
    {[fast |-> FALSE, map_ok |-> TRUE, self |-> TRUE, vp_index_ok |-> TRUE,
      target_vtl |-> t] : t \in 0 .. HV_NUM_VTLS}
    \cup {[fast |-> TRUE, map_ok |-> TRUE, self |-> TRUE, vp_index_ok |-> TRUE,
           target_vtl |-> 1],
          [fast |-> FALSE, map_ok |-> FALSE, self |-> TRUE, vp_index_ok |-> TRUE,
           target_vtl |-> 1],
          [fast |-> FALSE, map_ok |-> TRUE, self |-> FALSE, vp_index_ok |-> TRUE,
           target_vtl |-> 1],
          [fast |-> FALSE, map_ok |-> TRUE, self |-> TRUE, vp_index_ok |-> FALSE,
           target_vtl |-> 1]}

VtlNext ==
    \/ \E cs \in Vtls, i \in PartitionInputs :
          hyperv_hcall_vtl_enable_partition_vtl(cs, i.fast, i.self,
                                                i.enable_mbec, i.target_vtl)
    \/ \E cs \in Vtls, i \in VpInputs :
          hyperv_hcall_vtl_enable_vp_vtl(cs, i.fast, i.map_ok, i.self,
                                         i.vp_index_ok, i.target_vtl)
    \/ \E cs \in Vtls, survives \in BOOLEAN : hyperv_hcall_vtl_call(cs, survives)
    \/ \E cs \in Vtls : hyperv_hcall_vtl_return(cs)
    \/ \E t \in Vtls : switch_vtl_sync(t)
    \/ \E t \in Vtls : switch_vtl_resume(t)
    \/ \E t \in Vtls : switch_vtl_stop(t)
    \/ \E n \in SwitchTargets : vp_vsm_notify(n)
    \/ \E n \in Vtls : vp_vsm_notifier(n)
    \/ \E c \in Vtls : vcpu_thread_stop(c)
    \/ vp_vsm_notifier_sync
    \/ vp_vsm_notifier_resume
    \/ \E c \in Vtls, f \in RegFields \ {"gs_base", "ldt"}, v \in RegValues :
          guest_write_reg(c, f, v)
    \/ \E cs \in SwitchTargets, enable \in BOOLEAN, map_ok \in BOOLEAN :
          hyperv_setup_vp_assist(cs, enable, map_ok)
    \/ \E cs \in Vtls, set \in BOOLEAN, i \in GetSetInputs :
          hyperv_hcall_get_set_vp_register(cs, set, i)

\* the interrupt route plays no part here; its GSI is fixed
VtlInit == Init /\ gsi = 1

VtlSpec == VtlInit /\ [][VtlNext]_vars

---------------------------------------------------------------------------
\* C16.  VTL_CALL from a context whose next-higher VTL is above the maximum
\* supported VTL, and VTL_RETURN from VTL0, are rejected with an error
\* status, and no context has its registers or its running/stopped status
\* changed.

SwitchRejected(handler) ==
    /\ ~vtl_crashed'
    /\ vtl_ret'.op = handler
    /\ vtl_ret'.status \notin {EXCP_HALTED, HV_STATUS_SUCCESS}
    /\ UNCHANGED <<env, cpu_stopped, cpu_stop, vtl_pc>>

C16_Step ==
    /\ hyperv_hcall_vtl_return(0) => SwitchRejected("vtl_return")
    /\ \A cs \in Vtls :
          /\ hyperv_get_next_vtl(cs) > maximum_vtl
          /\ \E survives \in BOOLEAN : hyperv_hcall_vtl_call(cs, survives)
          => SwitchRejected("vtl_call")

C16_InvalidSwitchRejected == [][C16_Step]_vars

---------------------------------------------------------------------------
\* C17.  After every VTL switch each per-VTL-isolated field of the
\* destination (base-register MSR, DR7 and control register, synthetic
\* interrupt MSR, pending exception state) has the value the destination
\* held immediately before the switch, whatever the source's value was.

IsolatedFields == {"gsbase", "dr7", "cr3", "msr_hv_synic_control",
                   "exception_nr"}

Kept(dst, fields) == \A f \in fields : env'[dst][f] = env[dst][f]

C17_Step ==
    /\ \A t \in Vtls : switch_vtl_sync(t) => Kept(vtl_sw[t].next, IsolatedFields)
    /\ vp_vsm_notifier_sync => Kept(el_sw.next, IsolatedFields)

C17_IsolatedFieldsKept == [][C17_Step]_vars

---------------------------------------------------------------------------
\* C18.  ENABLE_VP_VTL for a VTL that no successful ENABLE_PARTITION_VTL
\* has enabled fails (with invalid-parameter when the call is otherwise
\* well formed) and enables nothing for the vCPU; ENABLE_PARTITION_VTL for
\* a VTL already in the partition's enabled set (VTL0 included) or above
\* the maximum VTL fails and leaves the set unchanged; the set changes only
\* by a successful call adding one VTL that was not in it, so each VTL is
\* promoted exactly once.

WellFormedVp(i) == ~i.fast /\ i.map_ok /\ i.self /\ i.vp_index_ok

C18_VpStep ==
    \A cs \in Vtls, i \in VpInputs :
       /\ i.target_vtl \notin partition_enabled_vtl_set \ {0}
       /\ hyperv_hcall_vtl_enable_vp_vtl(cs, i.fast, i.map_ok, i.self,
                                         i.vp_index_ok, i.target_vtl)
       => /\ vtl_ret'.op = "enable_vp_vtl"
          /\ vtl_ret'.status # HV_STATUS_SUCCESS
          /\ WellFormedVp(i) => vtl_ret'.status = HV_STATUS_INVALID_PARAMETER
          /\ UNCHANGED <<vp_enabled_vtl_set, cpu_exists, cpu_stopped, env>>

C18_PartitionStep ==
    \A cs \in Vtls, i \in PartitionInputs :
       /\ i.target_vtl \in partition_enabled_vtl_set
          \/ i.target_vtl > maximum_vtl
       /\ hyperv_hcall_vtl_enable_partition_vtl(cs, i.fast, i.self,
                                                i.enable_mbec, i.target_vtl)
       => /\ vtl_ret'.op = "enable_partition_vtl"
          /\ vtl_ret'.status # HV_STATUS_SUCCESS
          /\ UNCHANGED partition_enabled_vtl_set

C18_PromotedOnce ==
    partition_enabled_vtl_set' # partition_enabled_vtl_set
    => /\ vtl_ret' = Returned("enable_partition_vtl", HV_STATUS_SUCCESS)
       /\ \E target_vtl \in Vtls \ partition_enabled_vtl_set :
             partition_enabled_vtl_set' =
                partition_enabled_vtl_set \cup {target_vtl}

C18_EnableOrder ==
    /\ [](0 \in partition_enabled_vtl_set)
    /\ [][C18_VpStep /\ C18_PartitionStep /\ C18_PromotedOnce]_vars

\* VTL1 was promoted, and a repeated ENABLE_PARTITION_VTL was then refused;
\* or ENABLE_VP_VTL was refused for want of the promotion
C18_Witness ==
    \/ /\ partition_enabled_vtl_set = {0, 1}
       /\ vtl_ret = Returned("enable_partition_vtl", HV_STATUS_INVALID_PARAMETER)
    \/ /\ partition_enabled_vtl_set = {0}
       /\ vtl_ret = Returned("enable_vp_vtl", HV_STATUS_INVALID_PARAMETER)

---------------------------------------------------------------------------
\* C19.  In every VTL switch (VTL_CALL, VTL_RETURN or interrupt-triggered)
\* the source context has stopped before any register state is
\* transplanted into the destination and before the destination is
\* resumed; when the switch handler returns, the destination is resumed and
\* the source is stopped.

SourceStopped(sw) == cpu_stopped[sw.active]

HandedOver(sw) == ~cpu_stopped'[sw.next] /\ cpu_stopped'[sw.active]

C19_Step ==
    /\ \A t \in Vtls :
          /\ switch_vtl_sync(t) => SourceStopped(vtl_sw[t])
          /\ switch_vtl_resume(t) => SourceStopped(vtl_sw[t])
          /\ switch_vtl_stop(t) => HandedOver(vtl_sw[t])
    /\ vp_vsm_notifier_sync => SourceStopped(el_sw)
    /\ vp_vsm_notifier_resume => SourceStopped(el_sw) /\ HandedOver(el_sw)

C19_StopBeforeTransplant == [][C19_Step]_vars

---------------------------------------------------------------------------
\* C20.  In every reachable state at most one VTL context of the logical
\* processor is running (not stopped), and after every completed VTL
\* switch exactly one is running, the destination, while all others, the
\* source included, are stopped.

Running == {c \in cpu_exists : ~cpu_stopped[c]}

C20_Step ==
    /\ \A t \in Vtls :
          switch_vtl_stop(t) =>
             {c \in cpu_exists' : ~cpu_stopped'[c]} = {vtl_sw[t].next}
    /\ vp_vsm_notifier_resume =>
          {c \in cpu_exists' : ~cpu_stopped'[c]} = {el_sw.next}

C20_OneRunning == [](Cardinality(Running) <= 1) /\ [][C20_Step]_vars

---------------------------------------------------------------------------
\* C21.  A VTL switch whose target VTL has no execution context for this
\* vCPU (it was not enabled) is rejected before any state is mutated: no
\* context is stopped or resumed, no register state changes, and no entry
\* reason is written to any assist page.

C21_Step ==
    \A cs \in Vtls :
       /\ hyperv_get_next_vtl(cs) <= maximum_vtl
       /\ hyperv_vsm_vcpu_is_null(hyperv_get_next_vtl(cs))
       /\ \E survives \in BOOLEAN : hyperv_hcall_vtl_call(cs, survives)
       => /\ SwitchRejected("vtl_call")
          /\ UNCHANGED <<vtl_entry_reason, vp_assist, vtl_sw, iothread_lock>>

C21_NotEnabledRejected == [][C21_Step]_vars

---------------------------------------------------------------------------
\* C22.  Every mutation of VTL state (the registers of a context, the
\* per-vCPU and the partition-wide enabled-VTL sets, the entry reason in an
\* assist page) is performed while the iothread lock is held.

GuestWriteStep ==
    \E c \in Vtls, f \in RegFields, v \in RegValues : guest_write_reg(c, f, v)

GetSetStep ==
    \E cs \in Vtls, set \in BOOLEAN, i \in GetSetInputs :
       hyperv_hcall_get_set_vp_register(cs, set, i)

VtlStateMutated ==
    \/ partition_enabled_vtl_set' # partition_enabled_vtl_set
    \/ vp_enabled_vtl_set' # vp_enabled_vtl_set
    \/ vtl_entry_reason' # vtl_entry_reason
    \/ env' # env /\ ~GuestWriteStep

\* the step takes the lock and mutates inside the locked section, or is the
\* register loop of GET/SET_VP_REGISTERS, which is one locked section
UnderIothreadLock ==
    \/ iothread_lock = "none" /\ iothread_lock' # "none"
    \/ GetSetStep

C22_MutationsLocked == [][VtlStateMutated => UnderIothreadLock]_vars

---------------------------------------------------------------------------
\* C23.  No sequence of guest-issued hypercalls, whatever their arguments,
\* reaches a host assertion failure or an access to a VTL context that does
\* not exist: the process never dies at the guest's hand.

C23_NoHostCrash == ~vtl_crashed

---------------------------------------------------------------------------
\* C24.  Every hypercall handler, on every input and in every state, returns
\* a status of the fixed enumeration: success, invalid-partition-id,
\* invalid-parameter, invalid-vp-index, invalid-alignment,
\* insufficient-memory, access-denied, invalid-connection-id, no-data,
\* invalid-hypercall-code, invalid-hypercall-input.

StatusEnumeration ==
    {HV_STATUS_SUCCESS, HV_STATUS_INVALID_PARTITION_ID,
     HV_STATUS_INVALID_PARAMETER, HV_STATUS_INVALID_VP_INDEX,
     "HV_STATUS_INVALID_ALIGNMENT", "HV_STATUS_INSUFFICIENT_MEMORY",
     HV_STATUS_ACCESS_DENIED, HV_STATUS_INVALID_CONNECTION_ID,
     "HV_STATUS_NO_DATA", HV_STATUS_INVALID_HYPERCALL_CODE,
     HV_STATUS_INVALID_HYPERCALL_INPUT}

C24_StatusInEnumeration ==
    vtl_ret.op # "none" => vtl_ret.status \in StatusEnumeration

---------------------------------------------------------------------------
\* C25.  GET_VP_REGISTER and SET_VP_REGISTER on a register name outside the
\* supported set fail with a status that no other failure of these
\* hypercalls returns, and read or write no register state.

\* the statuses of the failures that are not about an unknown name, for a
\* caller in context cs
OtherFailures(cs) ==
    {get_set_vp_register_status(cs, set, i) :
        set \in BOOLEAN, i \in {j \in GetSetInputs : j.name # UnknownName}}
    \ {HV_STATUS_SUCCESS, "crash", "indeterminate"}

C25_Step ==
    \A cs \in Vtls, set \in BOOLEAN :
       hyperv_hcall_get_set_vp_register(cs, set,
                                        [GetSetOk EXCEPT !.name = UnknownName])
       => /\ vtl_ret'.op = "get_set_vp_register"
          /\ vtl_ret'.status # HV_STATUS_SUCCESS
          /\ vtl_ret'.status \notin OtherFailures(cs)
          /\ UNCHANGED env

C25_UnknownNameDistinct == [][C25_Step]_vars

---------------------------------------------------------------------------
\* C26.  A VTL switch into a destination whose assist page is mapped writes
\* the entry reason to that page, VTL_CALL for an explicit call and INTERRUPT
\* for an interrupt-triggered switch; with no assist page mapped at the
\* destination nothing is written; a rejected VTL_CALL writes nothing.

EntryReasonWritten(dest, reason) ==
    IF vp_assist[dest] = "mapped"
    THEN vtl_entry_reason' = [vtl_entry_reason EXCEPT ![dest] = reason]
    ELSE UNCHANGED vtl_entry_reason

C26_Step ==
    /\ \A cs \in Vtls, survives \in BOOLEAN :
          hyperv_hcall_vtl_call(cs, survives)
          => IF vtl_pc'[cs] = "sync"
             THEN EntryReasonWritten(hyperv_get_next_vtl(cs),
                                     HV_VTL_ENTRY_VTL_CALL)
             ELSE UNCHANGED vtl_entry_reason
    /\ vp_vsm_notifier_sync /\ ~vtl_crashed'
       => EntryReasonWritten(el_sw.next, HV_VTL_ENTRY_INTERRUPT)

C26_EntryReason == [][C26_Step]_vars

---------------------------------------------------------------------------
\* C27.  Whenever cpu_post_msg starts executing the staged-message state is
\* BUSY, so the assertion at its entry never fails: every accepted post
\* queues exactly one delivery, and the state stays BUSY from the grab until
\* that delivery runs, whatever further posts, guest acks and completion
\* attempts come in between.

\* posts that were accepted and have not queued their delivery yet
Queueing == {p \in Posters : pc[p] \in {"ref", "ref_store", "sched"}}

C27_BusyAtDelivery ==
    /\ ~assert_failed
    /\ accepted = posted_count + cpu_queue + Cardinality(Queueing)
    /\ cpu_queue + Cardinality(Queueing) <= 1
    /\ cpu_queue + Cardinality(Queueing) = 1 => state = HV_STAGED_MSG_BUSY

\* the second delivery has begun, with a completion attempt of a guest ack
\* still to run
C27_Witness ==
    /\ pc["cpu"] = "posted"
    /\ posted_count = 2
    /\ bh_queue["sint_ack_handler"] > 0

---------------------------------------------------------------------------
\* C28.  A completion attempt (sint_msg_bh, scheduled by the delivery step
\* or by a guest ack) that finds the staged-message state FREE or BUSY does
\* nothing: no callback, no change of the state or of the recorded status,
\* no reference released.

C28_Step ==
    \A o \in BhOrigins :
       /\ state \in {HV_STAGED_MSG_FREE, HV_STAGED_MSG_BUSY}
       /\ sint_msg_bh(o)
       => /\ UNCHANGED <<cb_count, cb_last, state, status, msg>>
          /\ UNCHANGED <<refcount, refs_released, freed>>
          /\ pc'["el"] = "idle"

C28_SpuriousNoOp == [][C28_Step]_vars

\* an ack's attempt completed the message before the delivery step scheduled
\* its own, which has since run and found the message gone
C28_Witness ==
    /\ posted_count = 1 /\ posted_status = StatusOk
    /\ pc["cpu"] = "idle" /\ pc["el"] = "idle"
    /\ cb_count = 1 /\ cb_last.origin = "sint_ack_handler"
    /\ bh_queue["cpu_post_msg"] = 0
    /\ ~Halted

---------------------------------------------------------------------------
\* C29.  The callback of a message whose delivery found the slot occupied
\* (status retry) is not invoked until the guest acknowledges after that
\* delivery step set POSTED: a completion attempt that an earlier
\* acknowledgement scheduled does not complete it.

C29_Step ==
    CallbackStep /\ cb_last'.status = StatusEAGAIN => acked_since_posted

C29_RetryWaitsForAck == [][C29_Step]_vars

---------------------------------------------------------------------------
\* C30.  Every completion attempt (sint_msg_bh) and every delivery step
\* (cpu_post_msg) runs while its route still exists: none of them, once
\* scheduled, runs on a route that the last hyperv_sint_route_unref has
\* already destroyed.

C30_Step == ~(use_after_free("el") \/ use_after_free("cpu"))

C30_RouteOutlivesScheduled == [][C30_Step]_vars

---------------------------------------------------------------------------
\* C31.  While the completion callback of a message runs the state is still
\* POSTED, so a hyperv_post_msg on the route from inside the callback
\* returns -EAGAIN; the state becomes FREE, and a new post can be accepted,
\* only after the callback has returned and the status has been reset to 0.

\* sint_msg_bh has invoked the callback and has not set the state FREE yet
InCompletion == pc["el"] \in {"cb_done", "set_free"}

C31_Step ==
    /\ InCompletion /\ ~freed => state = HV_STAGED_MSG_POSTED
    /\ InCompletion /\ GrabStep
       => ret' = StatusEAGAIN /\ UNCHANGED <<state, msg, accepted>>
    /\ state = HV_STAGED_MSG_POSTED /\ state' = HV_STAGED_MSG_FREE
       => pc["el"] = "set_free" /\ status = StatusOk /\ cb_count = posted_count

C31_PostedDuringCallback == [][C31_Step]_vars

\* a post was turned away and the callback of the message in the way has run
C31_Witness ==
    /\ pc["el"] = "cb_done" /\ ~Halted /\ ~freed
    /\ ret = StatusEAGAIN
    /\ cb_count = 1 /\ accepted = 1

\* ============================ hyperv_set_event_flag, statement by statement
\* Several threads inside hyperv_set_event_flag at once.  A call is the
\* checks, the atomic OR, the dirty mark and the interrupt, each a step.

\* (mutant) the OR is done but the word it reports is the word afterwards
qatomic_fetch_or_new(word, mask) == [old |-> word \cup mask, new |-> word \cup mask]

\* qatomic_fetch_or(ptr, mask): the word before and the word afterwards
qatomic_fetch_or(word, mask) == [old |-> word, new |-> word \cup mask]

\* the checks at the entry: -EINVAL, -ENXIO, or on to the OR
set_event_flag_check(t, sint, eventno) ==
    /\ ~event_oob
    /\ sig_pc[t] = "idle"
    /\ event_calls < MaxSignals
    /\ event_calls' = event_calls + 1
    /\ sig_arg' = [sig_arg EXCEPT ![t] = [sint |-> sint, eventno |-> eventno]]
    /\ IF eventno > HV_EVENT_FLAGS_COUNT
       THEN event_ret' = StatusEINVAL /\ UNCHANGED sig_pc
       ELSE IF ~sctl_enabled \/ event_page_addr = 0
       THEN event_ret' = StatusENXIO /\ UNCHANGED sig_pc
       ELSE /\ sig_pc' = [sig_pc EXCEPT ![t] = "or"]
            /\ UNCHANGED event_ret
    /\ UNCHANGED <<post_rest, gsi, irq_count, sctl_enabled, event_page_addr,
                   event_page, event_oob, event_dirty_count, event_arg,
                   event_err, registry_vars, vtl_vars>>

\* qatomic_fetch_or(&flags[set_idx], set_mask) and the test of its result
set_event_flag_or(t) ==
    /\ ~event_oob
    /\ sig_pc[t] = "or"
    /\ LET set_idx == sig_arg[t].sint * WordsPerSint
                      + BIT_WORD(sig_arg[t].eventno)
           set_mask == BIT_MASK(sig_arg[t].eventno)
       IN IF set_idx \notin PageWords
          THEN /\ event_oob' = TRUE
               /\ sig_pc' = [sig_pc EXCEPT ![t] = "idle"]
               /\ UNCHANGED <<event_page, event_ret>>
          ELSE LET r == qatomic_fetch_or(event_page[set_idx], set_mask)
               IN /\ event_page' = [event_page EXCEPT ![set_idx] = r.new]
                  /\ UNCHANGED event_oob
                  /\ IF set_mask \subseteq r.old
                     THEN /\ event_ret' = StatusOk
                          /\ sig_pc' = [sig_pc EXCEPT ![t] = "idle"]
                     ELSE /\ sig_pc' = [sig_pc EXCEPT ![t] = "dirty"]
                          /\ UNCHANGED event_ret
    /\ UNCHANGED <<post_rest, gsi, irq_count, sctl_enabled, event_page_addr,
                   event_dirty_count, event_calls, event_arg, event_err,
                   sig_arg, registry_vars, vtl_vars>>

\* memory_region_set_dirty(&synic->event_page_mr, ...)
set_event_flag_dirty(t) ==
    /\ ~event_oob
    /\ sig_pc[t] = "dirty"
    /\ event_dirty_count' = event_dirty_count + 1
    /\ sig_pc' = [sig_pc EXCEPT ![t] = "irq"]
    /\ UNCHANGED <<post_rest, gsi, irq_count, sctl_enabled, event_page_addr,
                   event_page, event_oob, event_ret, event_calls, event_arg,
                   event_err, sig_arg, registry_vars, vtl_vars>>

\* ret = hyperv_sint_route_set_sint(sint_route); return ret
set_event_flag_set_sint(t) ==
    /\ ~event_oob
    /\ sig_pc[t] = "irq"
    /\ irq_count' = irq_count + hyperv_sint_route_set_sint(gsi)
    /\ event_ret' = StatusOk
    /\ sig_pc' = [sig_pc EXCEPT ![t] = "idle"]
    /\ UNCHANGED <<post_rest, gsi, sctl_enabled, event_page_addr, event_page,
                   event_oob, event_dirty_count, event_calls, event_arg,
                   event_err, sig_arg, registry_vars, vtl_vars>>

\* the guest moves or disables the event page while no call is under way
synic_update_quiet(sctl_enable, addr) ==
    /\ \A t \in Signallers : sig_pc[t] = "idle"
    /\ synic_update(sctl_enable, addr)

SignalNext ==
    \/ \E t \in Signallers, s \in Sints, e \in 0 .. HV_EVENT_FLAGS_COUNT + 1 :
           set_event_flag_check(t, s, e)
    \/ \E t \in Signallers : set_event_flag_or(t)
    \/ \E t \in Signallers : set_event_flag_dirty(t)
    \/ \E t \in Signallers : set_event_flag_set_sint(t)
    \/ \E en \in BOOLEAN, a \in {0, 1} : synic_update_quiet(en, a)

SignalSpec == Init /\ [][SignalNext]_vars

---------------------------------------------------------------------------
\* C32.  When several threads call hyperv_set_event_flag at the same time
\* for the same sint and the same clear eventno, exactly one call sees the
\* 0->1 edge: the page is marked dirty once and the sint raised once in
\* total, and the bit is set afterwards.

\* the flags set in the page
SetBits == {wb \in PageWords \X (0 .. BITS_PER_LONG - 1) : wb[2] \in event_page[wb[1]]}

\* the calls that saw an edge and have yet to mark the page / raise the sint
ToMark == {t \in Signallers : sig_pc[t] = "dirty"}
ToRaise == {t \in Signallers : sig_pc[t] \in {"dirty", "irq"}}

---------------------------------------------------------------------------
\* C33.  After a VTL switch every register of the destination outside the
\* per-VTL-isolated set (base-register MSRs, debug and control registers,
\* synthetic-interrupt MSRs, pending exception state), such as the
\* general-purpose registers, the instruction pointer, the stack pointer
\* and the flags, has the value the source held when the switch was made.

Copied(src, dst, fields) == \A f \in fields : env'[dst][f] = env[src][f]

\* the registers the claim takes to be shared between the VTLs
SharedFields == RegFields \ IsolatedFields

C33_Step ==
    /\ \A t \in Vtls :
          switch_vtl_sync(t)
          => Copied(vtl_sw[t].active, vtl_sw[t].next, SharedFields)
    /\ vp_vsm_notifier_sync /\ ~vtl_crashed'
       => Copied(el_sw.active, el_sw.next, SharedFields)

C33_SharedCopied == [][C33_Step]_vars

\* C33, amended.  The general-purpose registers other than the stack
\* pointer have the source's value after the switch; the instruction
\* pointer (with the stack pointer and the flags) and the segment registers
\* are saved and restored per VTL and keep the destination's own values.

\* what hyperv_restore_priv_vtl_state puts back beyond the isolated set
PerVtlFields == {"rip", "gs_base", "ldt"}

C33_StepAmended ==
    /\ \A t \in Vtls :
          switch_vtl_sync(t)
          => /\ Copied(vtl_sw[t].active, vtl_sw[t].next,
                       SharedFields \ PerVtlFields)
             /\ Kept(vtl_sw[t].next, PerVtlFields)
    /\ vp_vsm_notifier_sync /\ ~vtl_crashed'
       => /\ Copied(el_sw.active, el_sw.next, SharedFields \ PerVtlFields)
          /\ Kept(el_sw.next, PerVtlFields)

C33_SharedCopiedAmended == [][C33_StepAmended]_vars

\* VTL0 has called into VTL1: VTL1 has VTL0's rax, which it did not have
\* before, and its own instruction pointer
C33_Witness ==
    /\ vtl_pc[0] = "resume" /\ vtl_sw[0].next = 1
    /\ env[0]["rax"] = 1 /\ env[1]["rax"] = 1
    /\ env[0]["rip"] # env[1]["rip"]

---------------------------------------------------------------------------
\* C34.  A VTL switch changes no register and no per-VTL state (enabled-VTL
\* set) of the source context: after the switch the source's registers are
\* what they were when the switch began, and the source is stopped and
\* stays stopped until a later switch resumes it.

SourceKept(c) ==
    /\ env'[c] = env[c]
    /\ vp_enabled_vtl_set'[c] = vp_enabled_vtl_set[c]

\* the step resumes context c as the destination of a switch
ResumedBySwitch(c) ==
    \/ \E t \in Vtls : switch_vtl_resume(t) /\ vtl_sw[t].next = c
    \/ vp_vsm_notifier_resume /\ el_sw.next = c

C34_Step ==
    /\ \A t \in Vtls :
          switch_vtl_sync(t) \/ switch_vtl_resume(t) \/ switch_vtl_stop(t)
          => SourceKept(vtl_sw[t].active)
    /\ vp_vsm_notifier_sync \/ vp_vsm_notifier_resume
       => SourceKept(el_sw.active)
    /\ \A t \in Vtls : switch_vtl_stop(t) => cpu_stopped'[vtl_sw[t].active]
    /\ vp_vsm_notifier_resume => cpu_stopped'[el_sw.active]
    /\ \A c \in cpu_exists :
          cpu_stopped[c] /\ ~cpu_stopped'[c] => ResumedBySwitch(c)

C34_SourceUntouched == [][C34_Step]_vars

\* VTL0 has called into VTL1 and is stopped, with a register it wrote
\* before the call and a control register that differs from VTL1's
C34_Witness ==
    /\ vtl_ret = Returned("vtl_call", EXCP_HALTED)
    /\ cpu_stopped[0] /\ ~cpu_stopped[1] /\ vtl_pc[0] = "idle"
    /\ env[0]["rax"] = 1 /\ env[0]["cr3"] # env[1]["cr3"]

\* ===================================== vp_vsm_notifier, with its early return
\* The notification handler with the return of an ignored notification as a
\* step of its own, and notifications for every vCPU that has a VpVsmState
\* (vp_vsm_realize registers the notifier of each, VTL0's included).

\* (mutant) only VTL0 is ignored: a running VTL is switched to again
notifier_ignores_vtl0(n, stopped) == get_active_vtl(n) = 0

\* the tests of vp_vsm_notifier: VTL0, or a VTL that is not stopped
notifier_ignores(n, stopped) == get_active_vtl(n) = 0 \/ ~stopped[n]

\* vp_vsm_notifier up to its early return or to wait_cpu_stopped; next_cs
\* and active_cs are assigned before the tests that use them
vp_vsm_notifier_entry(n) ==
    /\ ~vtl_crashed
    /\ el_pc = "idle"
    /\ iothread_lock = "none"
    /\ notifier_pending[n]
    /\ notifier_pending' = [notifier_pending EXCEPT ![n] = FALSE]
    /\ el_sw' = [active |-> IF get_active_vtl(n) = 0 THEN el_sw.active
                            ELSE hyperv_get_prev_vtl(n),
                 next |-> n]
    /\ IF notifier_ignores(n, cpu_stopped)
       THEN /\ el_pc' = "ignored"
            /\ UNCHANGED cpu_stop
       ELSE /\ cpu_stop' = [cpu_stop EXCEPT ![hyperv_get_prev_vtl(n)] = TRUE]
            /\ el_pc' = "wait"
    /\ UNCHANGED <<post_vars, event_vars, registry_vars, access_vars, assist_vars, vtl_pc,
                   vtl_sw, partition_enabled_vtl_set, cpu_exists, cpu_stopped,
                   env, vp_enabled_vtl_set, iothread_lock, vtl_ret,
                   vtl_crashed, vtl_writes>>

\* the return of an ignored notification
vp_vsm_notifier_return ==
    /\ ~vtl_crashed
    /\ el_pc = "ignored"
    /\ el_pc' = "idle"
    /\ UNCHANGED <<post_vars, event_vars, registry_vars, access_vars, assist_vars, el_sw,
                   vtl_pc, partition_enabled_vtl_set, cpu_exists, cpu_stopped,
                   cpu_stop, env, vp_enabled_vtl_set, notifier_pending,
                   iothread_lock, vtl_sw, vtl_ret, vtl_crashed, vtl_writes>>

NotifyNext ==
    \/ \E cs \in Vtls, i \in PartitionInputs :
          hyperv_hcall_vtl_enable_partition_vtl(cs, i.fast, i.self,
                                                i.enable_mbec, i.target_vtl)
    \/ \E cs \in Vtls, i \in VpInputs :
          hyperv_hcall_vtl_enable_vp_vtl(cs, i.fast, i.map_ok, i.self,
                                         i.vp_index_ok, i.target_vtl)
    \/ \E cs \in Vtls, survives \in BOOLEAN : hyperv_hcall_vtl_call(cs, survives)
    \/ \E cs \in Vtls : hyperv_hcall_vtl_return(cs)
    \/ \E t \in Vtls : switch_vtl_sync(t)
    \/ \E t \in Vtls : switch_vtl_resume(t)
    \/ \E t \in Vtls : switch_vtl_stop(t)
    \/ \E n \in Vtls : vp_vsm_notify(n)
    \/ \E n \in Vtls : vp_vsm_notifier_entry(n)
    \/ vp_vsm_notifier_return
    \/ \E c \in Vtls : vcpu_thread_stop(c)
    \/ vp_vsm_notifier_sync
    \/ vp_vsm_notifier_resume
    \/ \E c \in Vtls, f \in {"rax"}, v \in RegValues : guest_write_reg(c, f, v)
    \/ \E cs \in SwitchTargets, enable \in BOOLEAN, map_ok \in BOOLEAN :
          hyperv_setup_vp_assist(cs, enable, map_ok)

NotifySpec == VtlInit /\ [][NotifyNext]_vars

---------------------------------------------------------------------------
\* C35.  A notification for a VTL context leads to a switch only if the
\* context is a VTL above 0 and is stopped: a notification for VTL0, or for
\* a higher VTL that is running, changes no register, stops and resumes no
\* context and writes no entry reason.

C35_Step ==
    /\ \A n \in Vtls :
          /\ get_active_vtl(n) = 0 \/ ~cpu_stopped[n]
          /\ vp_vsm_notifier_entry(n)
          => /\ el_pc' = "ignored"
             /\ UNCHANGED <<env, cpu_stopped, cpu_stop, vtl_entry_reason>>
    /\ vp_vsm_notifier_return
       => /\ el_pc' = "idle"
          /\ UNCHANGED <<env, cpu_stopped, cpu_stop, vtl_entry_reason>>
    /\ el_pc' = "wait" /\ el_pc # "wait"
       => el_sw'.next # 0 /\ cpu_stopped[el_sw'.next]

C35_IgnoredNotification == [][C35_Step]_vars

\* the handler is returning from a notification for VTL1, which is running
\* with its assist page mapped and no interrupt entry recorded
C35_Witness ==
    /\ el_pc = "ignored" /\ el_sw.next = 1
    /\ ~cpu_stopped[1] /\ ~cpu_stop[0] /\ cpu_stopped[0]
    /\ vp_assist[1] = "mapped"
    /\ vtl_entry_reason[1] # HV_VTL_ENTRY_INTERRUPT


---------------------------------------------------------------------------
\* C36.  In every reachable state VTL0 is in the partition's enabled-VTL
\* set and in the enabled-VTL set of every vCPU; every VTL in a vCPU's
\* enabled set is in the partition's set; no VTL above the maximum VTL is
\* in either set; and no step removes a VTL from either set.

C36_State ==
    /\ 0 \in partition_enabled_vtl_set
    /\ partition_enabled_vtl_set \subseteq 0 .. maximum_vtl
    /\ \A c \in Vtls :
          /\ 0 \in vp_enabled_vtl_set[c]
          /\ vp_enabled_vtl_set[c] \subseteq partition_enabled_vtl_set
          /\ vp_enabled_vtl_set[c] \subseteq 0 .. maximum_vtl

C36_Step ==
    /\ partition_enabled_vtl_set \subseteq partition_enabled_vtl_set'
    /\ \A c \in Vtls : vp_enabled_vtl_set[c] \subseteq vp_enabled_vtl_set'[c]

C36_EnabledSets == []C36_State /\ [][C36_Step]_vars

\* VTL1 was enabled for the partition and then for the vCPU, whose new
\* VTL1 context has its own set with VTL0 alone
C36_Witness ==
    /\ partition_enabled_vtl_set = {0, 1}
    /\ vp_enabled_vtl_set[0] = {0, 1}
    /\ vp_enabled_vtl_set[1] = {0}
    /\ 1 \in cpu_exists
    /\ vtl_ret = Returned("enable_vp_vtl", HV_STATUS_SUCCESS)


---------------------------------------------------------------------------
\* GET/SET_VP_REGISTERS, register by register.  The handler exists once
\* more here with its loop taken one iteration at a step, with lists of
\* names, with the values it stores and with the values it gives back.

MaxRegCalls == 2    \* calls that reach the loop, in a run

\* union hv_register_vsm_partition_config: bit 0 enable_vtl_protection,
\* then default_vtl_protection_mask (one bit of it), then
\* zero_memory_on_reset for the fields after it
enable_vtl_protection(as_u64) == as_u64 % 2
default_vtl_protection_mask(as_u64) == (as_u64 \div 2) % 2
zero_memory_on_reset(as_u64) == (as_u64 \div 4) % 2
PartitionConfigValues == 0 .. 7

\* (mutant) the two fields are taken from the new value every time
set_vsm_partition_config_rewrite(stored, data) == data

\* the value set_vsm_partition_config stores over `stored`
set_vsm_partition_config(stored, data) ==
    IF enable_vtl_protection(stored) # 0
    THEN enable_vtl_protection(stored)
         + 2 * default_vtl_protection_mask(stored)
         + 4 * zero_memory_on_reset(data)
    ELSE data

\* the LDTR case of get_vp_register: hyperv_get_seg fills rhs, and
\* memcpy(&rhs, val, sizeof(rhs)) then copies val over rhs; val is left as
\* it was
get_vp_register_seg(lhs, val) ==
    LET rhs == hyperv_get_seg(lhs)
        rhs_after_memcpy == val
    IN val

\* what get_vp_register leaves in *val
get_vp_register_val(name, target_vcpu) ==
    LET zero == 0
    IN IF get_vp_register(name, target_vcpu) # HV_STATUS_SUCCESS THEN zero
       ELSE IF name \in ScalarNames THEN env[target_vcpu][name]
       ELSE IF name \in SegNames
       THEN get_vp_register_seg(env[target_vcpu][name], zero)
       ELSE IF name = HV_REGISTER_VSM_PARTITION_CONFIG
       THEN hv_vsm_partition_config[get_active_vtl(target_vcpu)]
       ELSE vsm_vtl_config[target_vcpu][secure_config_reg_vtl(name)]

\* what set_vp_register makes of the three stores
set_vp_register_env(name, val, target_vcpu) ==
    IF set_vp_register(name, target_vcpu) # HV_STATUS_SUCCESS THEN env
    ELSE IF name \in ScalarNames THEN [env EXCEPT ![target_vcpu][name] = val]
    ELSE IF name \in SegNames
    THEN [env EXCEPT ![target_vcpu][name] = hyperv_set_seg(val)]
    ELSE env

set_vp_register_partition_config(name, val, target_vcpu) ==
    IF name = HV_REGISTER_VSM_PARTITION_CONFIG
    THEN [hv_vsm_partition_config EXCEPT ![get_active_vtl(target_vcpu)] =
             set_vsm_partition_config(@, val)]
    ELSE hv_vsm_partition_config

set_vp_register_vtl_config(name, val, target_vcpu) ==
    IF name \in SecureConfigNames
       /\ set_vp_register(name, target_vcpu) = HV_STATUS_SUCCESS
    THEN [vsm_vtl_config EXCEPT
             ![target_vcpu][secure_config_reg_vtl(name)] = val]
    ELSE vsm_vtl_config

\* the checks of the handler before it takes the lock
get_set_vp_register_pre(cs, i) ==
    IF i.fast_cont THEN HV_STATUS_INVALID_HYPERCALL_INPUT
    ELSE IF ~i.self THEN HV_STATUS_INVALID_PARTITION_ID
    ELSE IF i.use_target_vtl /\ i.target_vtl >= HV_NUM_VTLS
    THEN HV_STATUS_INVALID_HYPERCALL_INPUT
    ELSE IF i.use_target_vtl /\ i.target_vtl > get_active_vtl(cs)
    THEN HV_STATUS_ACCESS_DENIED
    ELSE IF ~i.vp_index_ok THEN HV_STATUS_INVALID_VP_INDEX
    ELSE HV_STATUS_SUCCESS

\* the handler up to its loop: a failed check returns at once; otherwise
\* the iothread lock is taken
get_set_vp_register_enter(cs, set, i) ==
    /\ InGuest(cs)
    /\ LET pre == get_set_vp_register_pre(cs, i)
       IN IF pre # HV_STATUS_SUCCESS
          THEN /\ vtl_ret' = Returned("get_set_vp_register", pre)
               /\ UNCHANGED <<iothread_lock, vtl_pc, regs_call, regs_calls>>
          ELSE /\ iothread_lock = "none"
               /\ regs_calls < MaxRegCalls
               /\ iothread_lock' = "vcpu"
               /\ regs_calls' = regs_calls + 1
               /\ vtl_pc' = [vtl_pc EXCEPT ![cs] =
                               IF Len(i.names) = 0 THEN "regs_done" ELSE "regs"]
               /\ regs_call' = [cs |-> cs, set |-> set,
                                target_vcpu |-> get_set_vtl(cs, i),
                                names |-> i.names, vals |-> i.vals, i |-> 1,
                                status |-> "indeterminate", changed |-> FALSE]
               /\ UNCHANGED vtl_ret
    /\ UNCHANGED <<post_vars, event_vars, registry_vars, assist_vars, el_pc,
                   el_sw, partition_enabled_vtl_set, cpu_exists, cpu_stopped,
                   cpu_stop, env, vp_enabled_vtl_set, notifier_pending,
                   vtl_sw, vtl_crashed, vtl_writes, hv_vsm_partition_config,
                   vsm_vtl_config, regs_out>>

\* one iteration of the loop: names[i] is set or got; a failure ends the
\* loop
get_set_vp_register_iter(cs) ==
    /\ vtl_pc[cs] = "regs"
    /\ regs_call.cs = cs
    /\ LET c == regs_call
           name == c.names[c.i]
           val == c.vals[c.i]
           st == IF c.set THEN set_vp_register(name, c.target_vcpu)
                 ELSE get_vp_register(name, c.target_vcpu)
       IN /\ env' = IF c.set THEN set_vp_register_env(name, val, c.target_vcpu)
                    ELSE env
          /\ hv_vsm_partition_config' =
                IF c.set
                THEN set_vp_register_partition_config(name, val, c.target_vcpu)
                ELSE hv_vsm_partition_config
          /\ vsm_vtl_config' =
                IF c.set THEN set_vp_register_vtl_config(name, val, c.target_vcpu)
                ELSE vsm_vtl_config
          /\ regs_call' =
                [c EXCEPT !.status = st,
                          !.i = IF st = HV_STATUS_SUCCESS THEN c.i + 1 ELSE c.i,
                          !.vals = IF c.set THEN c.vals
                                   ELSE [c.vals EXCEPT ![c.i] =
                                           get_vp_register_val(name, c.target_vcpu)],
                          !.changed = \/ c.changed
                                      \/ env' # env
                                      \/ hv_vsm_partition_config' # hv_vsm_partition_config
                                      \/ vsm_vtl_config' # vsm_vtl_config]
          /\ vtl_pc' = [vtl_pc EXCEPT ![cs] =
                          IF st # HV_STATUS_SUCCESS \/ c.i = Len(c.names)
                          THEN "regs_done" ELSE "regs"]
    /\ UNCHANGED <<post_vars, event_vars, registry_vars, assist_vars, el_pc,
                   el_sw, partition_enabled_vtl_set, cpu_exists, cpu_stopped,
                   cpu_stop, vp_enabled_vtl_set, notifier_pending,
                   iothread_lock, vtl_sw, vtl_ret, vtl_crashed, vtl_writes,
                   regs_out, regs_calls>>

\* after the loop: the lock is released and the status returned; with no
\* register in the list the status was never assigned.  A successful GET
\* gives the values to the guest.
get_set_vp_register_exit(cs) ==
    /\ vtl_pc[cs] = "regs_done"
    /\ regs_call.cs = cs
    /\ iothread_lock' = "none"
    /\ \E garbage \in {HV_STATUS_SUCCESS, "indeterminate"} :
          LET st == IF regs_call.status = "indeterminate" THEN garbage
                    ELSE regs_call.status
          IN /\ vtl_ret' = Returned("get_set_vp_register", st)
             /\ regs_out' = IF st = HV_STATUS_SUCCESS /\ ~regs_call.set
                            THEN regs_call.vals ELSE regs_out
    /\ vtl_pc' = [vtl_pc EXCEPT ![cs] = "idle"]
    /\ regs_call' = NoRegsCall
    /\ UNCHANGED <<post_vars, event_vars, registry_vars, assist_vars, el_pc,
                   el_sw, partition_enabled_vtl_set, cpu_exists, cpu_stopped,
                   cpu_stop, env, vp_enabled_vtl_set, notifier_pending,
                   vtl_sw, vtl_crashed, vtl_writes, hv_vsm_partition_config,
                   vsm_vtl_config, regs_calls>>

\* the calls: one name with each value it can take; two names, the second
\* of which fails or succeeds; no name; or wrong in one way
RegsOk(names, vals) ==
    [fast_cont |-> FALSE, self |-> TRUE, use_target_vtl |-> FALSE,
     target_vtl |-> 0, vp_index_ok |-> TRUE, names |-> names, vals |-> vals]

RegsNames == ScalarNames \cup SegNames \cup SecureConfigNames
             \cup {HV_REGISTER_VSM_PARTITION_CONFIG, UnknownName}

RegsValues(name) ==
    IF name = HV_REGISTER_VSM_PARTITION_CONFIG THEN PartitionConfigValues
    ELSE RegValues

RegsPairs == {<<"dr7", UnknownName>>,
              <<"dr7", HV_REGISTER_VSM_VP_SECURE_CONFIG_VTL1>>,
              <<"rip", "ldt">>}

RegsInputs ==
    {RegsOk(<<n>>, <<v>>) : <<n, v>> \in
        UNION {{<<m, w>> : w \in RegsValues(m)} : m \in RegsNames}}
    \cup {RegsOk(names, <<1, 1>>) : names \in RegsPairs}
    \cup {[RegsOk(<<"dr7">>, <<1>>) EXCEPT !.use_target_vtl = TRUE,
                                          !.target_vtl = t] :
             t \in 0 .. HV_NUM_VTLS}
    \cup {RegsOk(<<>>, <<>>),
          [RegsOk(<<"dr7">>, <<1>>) EXCEPT !.fast_cont = TRUE],
          [RegsOk(<<"dr7">>, <<1>>) EXCEPT !.self = FALSE],
          [RegsOk(<<"dr7">>, <<1>>) EXCEPT !.vp_index_ok = FALSE]}

\* the enabling of VTL1, the switches between the VTLs, and register
\* access from the context that runs
RegsNext ==
    \/ \E cs \in Vtls, i \in PartitionInputs :
          hyperv_hcall_vtl_enable_partition_vtl(cs, i.fast, i.self,
                                                i.enable_mbec, i.target_vtl)
    \/ \E cs \in Vtls, i \in VpInputs :
          hyperv_hcall_vtl_enable_vp_vtl(cs, i.fast, i.map_ok, i.self,
                                         i.vp_index_ok, i.target_vtl)
    \/ \E cs \in Vtls, survives \in BOOLEAN : hyperv_hcall_vtl_call(cs, survives)
    \/ \E cs \in Vtls : hyperv_hcall_vtl_return(cs)
    \/ \E t \in Vtls : switch_vtl_sync(t)
    \/ \E t \in Vtls : switch_vtl_resume(t)
    \/ \E t \in Vtls : switch_vtl_stop(t)
    \/ \E cs \in Vtls, set \in BOOLEAN, i \in RegsInputs :
          get_set_vp_register_enter(cs, set, i)
    \/ \E cs \in Vtls : get_set_vp_register_iter(cs)
    \/ \E cs \in Vtls : get_set_vp_register_exit(cs)

RegsSpec == VtlInit /\ [][RegsNext]_vars


---------------------------------------------------------------------------
\* C37.  Once enable_vtl_protection of a VTL's partition config is set,
\* every later SET of HV_REGISTER_VSM_PARTITION_CONFIG for that VTL leaves
\* enable_vtl_protection and default_vtl_protection_mask as they are
\* stored, while the other fields take the values written; no SET changes
\* the partition config of another VTL, and nothing else changes a
\* partition config at all.

\* the step sets names[i] = HV_REGISTER_VSM_PARTITION_CONFIG for VTL v
PartitionConfigSet(v) ==
    /\ vtl_pc[regs_call.cs] = "regs"
    /\ regs_call.set
    /\ regs_call.names[regs_call.i] = HV_REGISTER_VSM_PARTITION_CONFIG
    /\ get_active_vtl(regs_call.target_vcpu) = v
    /\ get_set_vp_register_iter(regs_call.cs)

C37_Step ==
    /\ \A v \in Vtls :
          PartitionConfigSet(v)
          => LET stored == hv_vsm_partition_config[v]
                 data == regs_call.vals[regs_call.i]
                 new == hv_vsm_partition_config'[v]
             IN /\ regs_call'.status = HV_STATUS_SUCCESS
                /\ zero_memory_on_reset(new) = zero_memory_on_reset(data)
                /\ IF enable_vtl_protection(stored) = 1
                   THEN /\ enable_vtl_protection(new) = 1
                        /\ default_vtl_protection_mask(new)
                             = default_vtl_protection_mask(stored)
                   ELSE new = data
                /\ \A w \in Vtls \ {v} :
                      hv_vsm_partition_config'[w] = hv_vsm_partition_config[w]
    /\ hv_vsm_partition_config' # hv_vsm_partition_config
       => \E v \in Vtls : PartitionConfigSet(v)

C37_WriteOnce == [][C37_Step]_vars

\* VTL1's config was written with the protection enabled and the mask
\* set, and a second SET that cleared both is being carried out: the two
\* fields stayed and the third took the new value; VTL0's config is its own
C37_Witness ==
    /\ regs_calls = 2
    /\ regs_call.set /\ regs_call.target_vcpu = 1
    /\ regs_call.names = <<HV_REGISTER_VSM_PARTITION_CONFIG>>
    /\ regs_call.vals = <<4>>
    /\ regs_call.i = 2 /\ regs_call.status = HV_STATUS_SUCCESS
    /\ hv_vsm_partition_config[1] = 7
    /\ hv_vsm_partition_config[0] = 0


---------------------------------------------------------------------------
\* C38.  GET or SET of HV_REGISTER_VSM_VP_SECURE_CONFIG_VTLn on a target
\* context at VTL t succeeds exactly when t > 0 and n < t.  Otherwise it
\* fails with HV_STATUS_INVALID_PARAMETER, no secure config is changed and
\* the caller's value holds nothing read from one.  A successful SET
\* changes entry n of the target's secure config and no other entry; a GET
\* changes none.

\* the step handles a secure config register
SecureConfigAccess ==
    /\ vtl_pc[regs_call.cs] = "regs"
    /\ regs_call.names[regs_call.i] \in SecureConfigNames
    /\ get_set_vp_register_iter(regs_call.cs)

C38_Step ==
    SecureConfigAccess
    => LET t == get_active_vtl(regs_call.target_vcpu)
           n == secure_config_reg_vtl(regs_call.names[regs_call.i])
           val == regs_call.vals[regs_call.i]
       IN /\ regs_call'.status = HV_STATUS_SUCCESS <=> t > 0 /\ n < t
          /\ regs_call'.status
                \in {HV_STATUS_SUCCESS, HV_STATUS_INVALID_PARAMETER}
          /\ regs_call'.status = HV_STATUS_INVALID_PARAMETER
             => /\ vsm_vtl_config' = vsm_vtl_config
                /\ ~regs_call.set => regs_call'.vals[regs_call.i] = 0
          /\ regs_call'.status = HV_STATUS_SUCCESS /\ regs_call.set
             => vsm_vtl_config' =
                   [vsm_vtl_config EXCEPT ![regs_call.target_vcpu][n] = val]
          /\ regs_call'.status = HV_STATUS_SUCCESS /\ ~regs_call.set
             => /\ vsm_vtl_config' = vsm_vtl_config
                /\ regs_call'.vals[regs_call.i]
                     = vsm_vtl_config[regs_call.target_vcpu][n]
          /\ UNCHANGED <<env, hv_vsm_partition_config>>

C38_SecureConfigAccess == [][C38_Step]_vars

\* VTL1 has set its secure config for VTL0, and its GET of the secure
\* config for VTL1 has then been refused
C38_Witness ==
    /\ regs_calls = 2
    /\ vsm_vtl_config[1][0] = 1 /\ vsm_vtl_config[1][1] = 0
    /\ ~regs_call.set /\ regs_call.target_vcpu = 1
    /\ regs_call.names = <<HV_REGISTER_VSM_VP_SECURE_CONFIG_VTL1>>
    /\ regs_call.status = HV_STATUS_INVALID_PARAMETER
    /\ regs_call.vals = <<0>>


---------------------------------------------------------------------------
\* C39.  For a register name that both SET_VP_REGISTERS and
\* GET_VP_REGISTERS accept (RIP, DR7 and the like, and the segment and
\* table registers such as LDTR), a successful SET of value v on a target
\* context followed by a GET of the same name on the same context gives v.

RoundTripNames == ScalarNames \cup SegNames

\* the values a guest sets: for a segment register, no reserved bit
RoundTripValues == RegValues

\* the step sets names[i] of RoundTripNames
RoundTripSet ==
    /\ vtl_pc[regs_call.cs] = "regs"
    /\ regs_call.set
    /\ regs_call.names[regs_call.i] \in RoundTripNames
    /\ regs_call.vals[regs_call.i] \in RoundTripValues
    /\ get_set_vp_register_iter(regs_call.cs)

C39_Step ==
    \A name \in RoundTripNames, t \in Vtls, v \in RoundTripValues :
       /\ RoundTripSet
       /\ regs_call.names[regs_call.i] = name
       /\ regs_call.target_vcpu = t
       /\ regs_call.vals[regs_call.i] = v
       /\ regs_call'.status = HV_STATUS_SUCCESS
       => /\ get_vp_register(name, t)' = HV_STATUS_SUCCESS
          /\ get_vp_register_val(name, t)' = v

C39_SetThenGet == [][C39_Step]_vars


---------------------------------------------------------------------------
\* C40.  A SET_VP_REGISTERS call that returns an error status has changed
\* no register of the target context, whether the error comes from the
\* checks before the loop (partition id, target VTL above the caller's or
\* out of range, VP index) or from an unknown or refused register name
\* anywhere in the list.

\* the stores a SET can write
RegisterState == <<env, hv_vsm_partition_config, vsm_vtl_config>>

C40_Step ==
    /\ \A cs \in Vtls, i \in RegsInputs :
          /\ get_set_vp_register_enter(cs, TRUE, i)
          /\ vtl_ret' # vtl_ret
          => /\ vtl_ret'.status # HV_STATUS_SUCCESS
             /\ UNCHANGED RegisterState
    /\ \A cs \in Vtls :
          /\ get_set_vp_register_exit(cs)
          /\ regs_call.set
          /\ vtl_ret'.status # HV_STATUS_SUCCESS
          => ~regs_call.changed

C40_AllOrNothing == [][C40_Step]_vars

====
